---- MODULE Spec2Model ----
(***************************************************************************)
(* Payment-attempt retry and decision core of the router                   *)
(* (crates/router/src/core/payments/retry.rs).                             *)
(*                                                                         *)
(* One task runs one call of do_gsm_actions on one payment.  Repository    *)
(* rows (attempts, intent), the GSM table and the merchant configs are     *)
(* shared between tasks; everything else is owned by a task.  A task       *)
(* advances from one suspension point to the next: the repository writes   *)
(* of modify_trackers and the connector call of do_retry are separate      *)
(* steps.                                                                  *)
(***************************************************************************)
EXTENDS Integers, Sequences, FiniteSets, TLC

\* ------------------------------------------------------------------ bounds
\* longest connector shortlist handed to do_gsm_actions
MaxConnectors == 2
\* largest value stored under max_auto_retries
MaxRetries == 2

\* ------------------------------------------------------------- vocabulary
Tasks == {1, 2}

None == "None"
AuthTypes == {"NoThreeDs", "ThreeDs"}

\* the connector of the first invocation, and the pool the fallbacks come from
OriginalConnector == "A"
FallbackPool == <<"B", "C", "D", "E">>
Shortlists == {SubSeq(FallbackPool, 1, k) : k \in 0..MaxConnectors}

\* Option<i32>
NoneI32 == [some |-> FALSE, val |-> 0]
SomeI32(v) == [some |-> TRUE, val |-> v]

\* ----------------------------------------------------------------- config
\* what the config store holds under a key: nothing, a text that parses as
\* the expected shape, a text that does not, or the store fails
CfgAbsent == [tag |-> "absent", int |-> 0, list |-> {}]
CfgGarbage == [tag |-> "garbage", int |-> 0, list |-> {}]
CfgStoreError == [tag |-> "error", int |-> 0, list |-> {}]
CfgInt(n) == [tag |-> "int", int |-> n, list |-> {}]
CfgList(s) == [tag |-> "list", int |-> 0, list |-> s]
CfgText(s) == [tag |-> "text", int |-> 0, list |-> {}, text |-> s]
\* values of the should_call_gsm key: no row, a store error, or a text
ShouldCallGsmConfigs ==
    {CfgAbsent, CfgStoreError} \cup {CfgText(s) : s \in {"true", "false", "TRUE", "1", ""}}

MaxRetriesConfigs == {CfgAbsent, CfgGarbage, CfgStoreError} \cup {CfgInt(n) : n \in (0 - 1)..MaxRetries}
StepUpConfigs == {CfgAbsent, CfgGarbage, CfgStoreError, CfgList({"A"}), CfgList({"B"})}

\* -------------------------------------------------------------------- GSM
NoCode == "-"
ErrorCodes == {"E_RETRY", "E_STEPUP", "E_REQUEUE", "E_DEFAULT", "E_BADDEC", "E_NOMATCH"}

NoGsm == [present |-> FALSE, decision |-> "", step_up_possible |-> FALSE,
          unified_code |-> None, unified_message |-> None]
GsmRow(d, s, uc, um) == [present |-> TRUE, decision |-> d, step_up_possible |-> s,
                         unified_code |-> uc, unified_message |-> um]

\* The GSM table of the deployment, keyed by (connector, error code).  A
\* successful response is looked up with an absent code, which matches a
\* record keyed by the empty code.
get_gsm_record(connector, code) ==
    CASE code = "E_RETRY" -> GsmRow("retry", FALSE, "UE_1000", "Declined")
      [] code = "E_STEPUP" -> GsmRow("retry", TRUE, "UE_2000", "Authenticate")
      [] code = "E_REQUEUE" -> GsmRow("requeue", FALSE, "UE_3000", "Try later")
      [] code = "E_DEFAULT" -> GsmRow("do_default", TRUE, "UE_4000", "Stop")
      [] code = "E_BADDEC" -> GsmRow("bogus", FALSE, "UE_5000", "Unknown")
      [] code = NoCode /\ connector = "A" -> GsmRow("retry", TRUE, "UE_6000", "Failed")
      [] code = NoCode /\ connector = "B" -> GsmRow("retry", FALSE, "UE_6000", "Failed")
      [] OTHER -> NoGsm

\* variant: the record is looked up without the error code
get_gsm_IgnoresCode(rd) == get_gsm_record(rd.connector, NoCode)

\* get_gsm: the error code of the response, if it is an error, else none
get_gsm(rd) ==
    get_gsm_record(rd.connector, IF rd.kind = "Err" THEN rd.code ELSE NoCode)

\* GsmDecision::from_str, then unwrap_or_default
Decisions == {"Retry", "Requeue", "DoDefault"}
GsmDecisionFromStr(s) ==
    CASE s = "retry" -> "Retry"
      [] s = "requeue" -> "Requeue"
      [] s = "do_default" -> "DoDefault"
      [] OTHER -> None

OptionGsmDecision(gsm) ==
    IF gsm.present THEN GsmDecisionFromStr(gsm.decision) ELSE None

\* variant: an absent or unparseable decision is taken as Retry
get_gsm_decision_DefaultsToRetry(gsm) ==
    IF OptionGsmDecision(gsm) # None THEN OptionGsmDecision(gsm) ELSE "Retry"

\* get_gsm_decision: the parsed decision of the record, DoDefault without one
get_gsm_decision(gsm) ==
    IF OptionGsmDecision(gsm) # None THEN OptionGsmDecision(gsm) ELSE "DoDefault"

\* variant: every record found counts as a match
GsmMatchCount_AnyRecord(gsm) == IF gsm.present THEN 1 ELSE 0

\* get_gsm_decision, lines 252-254: what one call adds to AUTO_RETRY_GSM_MATCH_COUNT
GsmMatchCount(gsm) == IF OptionGsmDecision(gsm) # None THEN 1 ELSE 0

\* ------------------------------------------------------ connector responses
TxnStatuses == {"Charged", "Failure", "Pending"}

\* storage_enums::AttemptStatus, every variant
AttemptStatuses ==
    {"Started", "AuthenticationPending", "AuthenticationSuccessful", "Authorized", "Charged",
     "Authorizing", "CodInitiated", "Voided", "VoidInitiated", "CaptureInitiated",
     "RouterDeclined", "VoidFailed", "AutoRefunded", "CaptureFailed", "PartialCharged",
     "PartialChargedAndChargeable", "Pending", "PaymentMethodAwaited", "ConfirmationAwaited",
     "Unresolved", "DeviceDataCollectionPending", "AuthenticationFailed",
     "AuthorizationFailed", "Failure"}

ErrResponses == [kind : {"Err"}, code : ErrorCodes, status : {"Failure"}]
TxnResponses == [kind : {"Txn"}, code : {NoCode}, status : TxnStatuses]
OtherResponses == [kind : {"Other"}, code : {NoCode}, status : {"Failure"}]
Responses == ErrResponses \cup TxnResponses \cup OtherResponses

RouterData(connector, resp, auth, attempt) ==
    [connector |-> connector, kind |-> resp.kind, code |-> resp.code,
     status |-> resp.status, auth_type |-> auth, attempt_id |-> attempt]

\* variant: only the status Failure passes
should_call_gsm_FailureOnly(rd) ==
    IF rd.kind = "Err" THEN TRUE ELSE rd.status = "Failure"

\* should_call_gsm: the gate the caller applies before do_gsm_actions
should_call_gsm(rd) ==
    IF rd.kind = "Err" THEN TRUE
    ELSE rd.status \in {"AuthenticationFailed", "AuthorizationFailed", "Failure"}

\* ------------------------------------------------------------ attempt rows
NoRow == [exists |-> FALSE]

\* the one payment the tasks work on
PaymentId == "pay_1"

\* PaymentId::get_attempt_id: the payment id joined with the attempt count
get_attempt_id(count) == <<PaymentId, count>>

AttemptIds == {get_attempt_id(count) : count \in 1..(MaxConnectors + 3)}

\* variant: a new attempt starts with the status an ErrorUpdate leaves behind
NewAttemptStatus_Failed(old) == "Failure"

\* make_new_payment_attempt, line 503: status: old_payment_attempt.status
NewAttemptStatus(old) == old.status

\* variant: the error and connector-response columns are copied like the rest
make_new_payment_attempt_CopiesAll(connector, old, new_attempt_count, is_step_up) ==
    [old EXCEPT !.attempt_id = get_attempt_id(new_attempt_count),
                !.connector = connector,
                !.authentication_type = IF is_step_up THEN "ThreeDs" ELSE @]

\* make_new_payment_attempt: the PaymentAttemptNew, as the row its insert gives
\* (a column the constructor does not have is null in the new row)
make_new_payment_attempt(connector, old, new_attempt_count, is_step_up) ==
    [exists |-> TRUE,
     attempt_id |-> get_attempt_id(new_attempt_count),
     connector |-> connector,
     payment_id |-> old.payment_id,
     merchant_id |-> old.merchant_id,
     status |-> NewAttemptStatus(old),
     authentication_type |-> IF is_step_up THEN "ThreeDs" ELSE old.authentication_type,
     amount |-> old.amount,
     currency |-> old.currency,
     payment_method |-> old.payment_method,
     capture_method |-> old.capture_method,
     profile_id |-> old.profile_id,
     organization_id |-> old.organization_id,
     amount_capturable |-> 0,
     error_code |-> None,
     error_message |-> None,
     error_reason |-> None,
     unified_code |-> None,
     unified_message |-> None,
     authentication_data |-> None,
     encoded_data |-> None,
     connector_metadata |-> None,
     multiple_capture_count |-> None,
     connector_transaction_id |-> None]

\* AttemptStatus::is_terminal_status
is_terminal_status(status) == status \in {"Charged", "Failure", "Voided", "AutoRefunded"}

\* A change-set field that is None at the outer Option leaves the column alone
Keep == "Keep"
KeepAmount == NoneI32

\* variant: the ResponseUpdate never names amount_capturable
ResponseUpdate_KeepsCapturable(rd) ==
    [status |-> rd.status,
     connector_transaction_id |-> "txn_id",
     authentication_type |-> Keep,
     error_code |-> Keep,
     error_reason |-> Keep,
     amount_capturable |-> KeepAmount,
     unified_code |-> Keep,
     unified_message |-> Keep]

\* PaymentAttemptUpdate::ResponseUpdate as modify_trackers fills it
ResponseUpdate(rd) ==
    [status |-> rd.status,
     connector_transaction_id |-> "txn_id",
     authentication_type |-> Keep,
     error_code |-> Keep,
     error_reason |-> Keep,
     amount_capturable |-> IF is_terminal_status(rd.status) THEN SomeI32(0) ELSE KeepAmount,
     unified_code |-> Keep,
     unified_message |-> Keep]

\* the authentication_type an ErrorUpdate carries
AuthUpdate(rd, snapshot) ==
    IF rd.auth_type # snapshot.authentication_type THEN rd.auth_type ELSE Keep

\* PaymentAttemptUpdate::ErrorUpdate as modify_trackers fills it
ErrorUpdate(rd, snapshot, option_gsm) ==
    [status |-> "Failure",
     connector_transaction_id |-> Keep,
     authentication_type |-> AuthUpdate(rd, snapshot),
     error_code |-> rd.code,
     error_reason |-> "reason",
     amount_capturable |-> SomeI32(0),
     unified_code |-> IF option_gsm.present THEN option_gsm.unified_code ELSE Keep,
     unified_message |-> IF option_gsm.present THEN option_gsm.unified_message ELSE Keep]

\* variant: an update naming the status the row already has re-opens the row
ApplyAttemptUpdate_ReopensOnReplay(row, cs) ==
    [row EXCEPT !.status = IF @ = cs.status THEN "Pending" ELSE cs.status,
                !.connector_transaction_id = IF cs.connector_transaction_id = Keep THEN @
                                             ELSE cs.connector_transaction_id,
                !.authentication_type = IF cs.authentication_type = Keep THEN @
                                        ELSE cs.authentication_type,
                !.error_code = IF cs.error_code = Keep THEN @ ELSE cs.error_code,
                !.error_reason = IF cs.error_reason = Keep THEN @ ELSE cs.error_reason,
                !.amount_capturable = IF cs.amount_capturable.some
                                      THEN cs.amount_capturable.val ELSE @,
                !.unified_code = IF cs.unified_code = Keep THEN @ ELSE cs.unified_code,
                !.unified_message = IF cs.unified_message = Keep THEN @ ELSE cs.unified_message]

\* update_payment_attempt_with_attempt_id: the columns the change-set names
ApplyAttemptUpdate(row, cs) ==
    [row EXCEPT !.status = cs.status,
                !.connector_transaction_id = IF cs.connector_transaction_id = Keep THEN @
                                             ELSE cs.connector_transaction_id,
                !.authentication_type = IF cs.authentication_type = Keep THEN @
                                        ELSE cs.authentication_type,
                !.error_code = IF cs.error_code = Keep THEN @ ELSE cs.error_code,
                !.error_reason = IF cs.error_reason = Keep THEN @ ELSE cs.error_reason,
                !.amount_capturable = IF cs.amount_capturable.some
                                      THEN cs.amount_capturable.val ELSE @,
                !.unified_code = IF cs.unified_code = Keep THEN @ ELSE cs.unified_code,
                !.unified_message = IF cs.unified_message = Keep THEN @ ELSE cs.unified_message]

\* -------------------------------------------------------------- decisions
\* is_step_up_enabled_for_merchant_connector: find_config_by_key_unwrap_or
\* with default "[]", parsed as a list of connectors
is_step_up_enabled_for_merchant_connector(cfg, connector) ==
    CASE cfg.tag = "list" -> connector \in cfg.list
      [] cfg.tag = "absent" -> connector \in {}
      [] OTHER -> FALSE

\* variant: the allow-list of the merchant is not consulted
ShouldStepUp_IgnoresAllowList(gsm, payment_attempt, cfg, connector) ==
    (IF gsm.present THEN gsm.step_up_possible ELSE FALSE)
    /\ payment_attempt.authentication_type = "NoThreeDs"

\* should_step_up of do_gsm_actions
ShouldStepUp(gsm, payment_attempt, cfg, connector) ==
    LET step_up_possible == IF gsm.present THEN gsm.step_up_possible ELSE FALSE
        is_no_three_ds_payment == payment_attempt.authentication_type = "NoThreeDs"
    IN IF step_up_possible /\ is_no_three_ds_payment
       THEN is_step_up_enabled_for_merchant_connector(cfg, connector)
       ELSE FALSE

\* variant: the config is parsed on every call, cached counter or not
get_retries_Rereads(retries, cfg) ==
    IF cfg.tag = "int" THEN SomeI32(cfg.int) ELSE NoneI32

\* get_retries: the cached counter, else the config parsed as i32
get_retries(retries, cfg) ==
    IF retries.some THEN retries
    ELSE IF cfg.tag = "int" THEN SomeI32(cfg.int) ELSE NoneI32

\* the budget test of the Retry arm
RetriesExhausted(retries) == ~retries.some \/ retries = SomeI32(0)

\* variant: the shortlist is never found empty
ConnectorsExhausted_Never(connectors) == FALSE

\* the shortlist test of the Retry arm
ConnectorsExhausted(connectors) == Len(connectors) = 0

\* variant: the exit on an empty shortlist does not count
ExhaustedCount_BudgetOnly(retries_exhausted, connectors_exhausted) ==
    IF retries_exhausted THEN 1 ELSE 0

\* what one exit of the Retry arm adds to AUTO_RETRY_EXHAUSTED_COUNT
ExhaustedCount(retries_exhausted, connectors_exhausted) ==
    IF retries_exhausted \/ connectors_exhausted THEN 1 ELSE 0

\* get_connector_data: the next connector of the iterator, an error if none
get_connector_data(connectors) ==
    IF Len(connectors) = 0 THEN None ELSE Head(connectors)

\* variant: the standard retry goes back to the connector that just failed
StandardRetryConnector_Original(connectors) ==
    IF Len(connectors) = 0 THEN None ELSE OriginalConnector

\* do_gsm_actions, lines 127-131: the connector handed to do_retry by the
\* Retry arm is the one just taken from the shortlist
StandardRetryConnector(connectors) == get_connector_data(connectors)

\* variant: the counter is not decremented
DecrementRetries_Forgotten(retries) == retries

\* retries.map(|i| i - 1)
DecrementRetries(retries) ==
    IF retries.some THEN SomeI32(retries.val - 1) ELSE retries

\* variant: the step-up retry falls through into the retry loop
AfterRetry_FallsThrough(is_step_up) == "loop"

\* where do_gsm_actions continues after do_retry returned Ok
AfterRetry(is_step_up) == IF is_step_up THEN "done" ELSE "loop"

\* ------------------------------------------------------------------ state
VARIABLES
    attempts,        \* repository: attempt id -> payment_attempt row, or NoRow
    intent,          \* repository: the payment_intent row
    cfg_max_retries, \* config store: value under max_auto_retries
    cfg_step_up,     \* config store: value under step_up_enabled
    cfg_should_call_gsm, \* config store: value under should_call_gsm
    pc,              \* per task: where the call of do_gsm_actions stands
    router_data,     \* per task: the RouterData of the last connector invocation
    connectors,      \* per task: the shortlist iterator
    payment_data,    \* per task: in-memory payment_attempt and payment_intent
    retries,         \* per task: the cached retry counter
    initial_gsm,     \* per task: the GSM record kept for the first iteration
    cur,             \* per task: arguments and locals of the running do_retry
    outcome,         \* per task: "running", "Ok", or the error returned
    metrics,         \* per task: what the call added to each counter
    hist,            \* per task: history of the call, for stating properties
    calc             \* a library call on its own: its arguments, then its result

vars == <<attempts, intent, cfg_max_retries, cfg_step_up, cfg_should_call_gsm, pc, router_data, connectors,
          payment_data, retries, initial_gsm, cur, outcome, metrics, hist, calc>>

InitialAttempt(auth) ==
    [exists |-> TRUE, attempt_id |-> get_attempt_id(1), connector |-> OriginalConnector,
     payment_id |-> PaymentId, merchant_id |-> "merchant_1",
     status |-> "Pending", authentication_type |-> auth, amount |-> 1000,
     currency |-> "USD", payment_method |-> "card", capture_method |-> "automatic",
     profile_id |-> "pro_1", organization_id |-> "org_1",
     amount_capturable |-> 1000, error_code |-> None, error_message |-> None,
     error_reason |-> None, unified_code |-> None, unified_message |-> None,
     authentication_data |-> None, encoded_data |-> None, connector_metadata |-> None,
     multiple_capture_count |-> None, connector_transaction_id |-> None]

InitialIntent == [attempt_count |-> 1, active_attempt_id |-> get_attempt_id(1)]

NoCur == [connector |-> None, is_step_up |-> FALSE, new_attempt_count |-> 0,
          new_payment_attempt |-> NoRow]

ZeroMetrics == [eligible |-> 0, payment |-> 0, exhausted |-> 0, gsm_match |-> 0]

\* step_ups / std_retries: calls of do_retry with is_step_up true / false;
\* invoked: (connector, attempt id) of every call_connector_service of the call;
\* cfg_reads: reads of max_auto_retries; the three flags: what modify_trackers
\* has written in the running do_retry; db_error: the repository error that
\* ended the call; entry*: the arguments of the call; option_gsm: what get_gsm
\* returned inside the last terminal update; applied: the last terminal update
\* the call got through (row id, change-set, the row as the update left it);
\* produced: the RouterData the last call_connector_service of the call gave
ZeroHist == [step_ups |-> 0, std_retries |-> 0, invoked |-> <<>>, cfg_reads |-> 0,
             updated |-> FALSE, inserted |-> FALSE, advanced |-> FALSE,
             db_error |-> None, entry |-> None, entry_connectors |-> <<>>,
             entry_auth |-> None, option_gsm |-> NoGsm, applied |-> [some |-> FALSE],
             produced |-> None]

\* the RouterData the caller hands over: the result of the first invocation,
\* which passed should_call_gsm
EntryRouterData ==
    {rd \in {RouterData(OriginalConnector, r, a, get_attempt_id(1)) :
                r \in Responses, a \in AuthTypes} : should_call_gsm(rd)}

\* no library call is under way
NoCalc == [fn |-> "none"]

InitRetry(first_pc, active, entries, shortlists, retry_cfgs, step_up_cfgs, gsm_cfgs) ==
    /\ cfg_max_retries \in retry_cfgs
    /\ cfg_step_up \in step_up_cfgs
    /\ cfg_should_call_gsm \in gsm_cfgs
    /\ intent = InitialIntent
    /\ \E auth \in AuthTypes \cup {None} :
          /\ attempts = [i \in AttemptIds |-> IF i = get_attempt_id(1)
                                               THEN InitialAttempt(auth) ELSE NoRow]
          /\ payment_data = [t \in Tasks |-> [payment_attempt |-> InitialAttempt(auth),
                                              payment_intent |-> InitialIntent]]
    /\ pc = [t \in Tasks |-> IF t \in active THEN first_pc ELSE "idle"]
    /\ router_data \in [Tasks -> entries]
    /\ \A t \in Tasks \ active : router_data[t] = CHOOSE rd \in entries : TRUE
    /\ connectors \in [Tasks -> shortlists]
    /\ \A t \in Tasks \ active : connectors[t] = <<>>
    /\ retries = [t \in Tasks |-> NoneI32]
    /\ initial_gsm = [t \in Tasks |-> NoGsm]
    /\ cur = [t \in Tasks |-> NoCur]
    /\ outcome = [t \in Tasks |-> "running"]
    /\ metrics = [t \in Tasks |-> ZeroMetrics]
    /\ hist = [t \in Tasks |->
                 [ZeroHist EXCEPT !.entry = router_data[t],
                                  !.entry_connectors = connectors[t],
                                  !.entry_auth = payment_data[t].payment_attempt.authentication_type]]

InitAt(first_pc, active, entries, shortlists, retry_cfgs, step_up_cfgs, gsm_cfgs) ==
    /\ InitRetry(first_pc, active, entries, shortlists, retry_cfgs, step_up_cfgs, gsm_cfgs)
    /\ calc = NoCalc

\* no request is under way
Quiescent ==
    /\ InitRetry("idle", {}, {RouterData(OriginalConnector,
                                         [kind |-> "Err", code |-> "E_RETRY", status |-> "Failure"],
                                         "NoThreeDs", get_attempt_id(1))},
                 {<<>>}, {CfgAbsent}, {CfgAbsent}, {CfgAbsent})
    /\ attempts[get_attempt_id(1)].authentication_type = None

\* the tasks in active are at the first line of do_gsm_actions, which the
\* caller reaches only after config_should_call_gsm returned true
InitFor(active, entries, shortlists, retry_cfgs, step_up_cfgs) ==
    InitAt("start", active, entries, shortlists, retry_cfgs, step_up_cfgs, {CfgText("true")})

\* one request on the payment
Init == InitFor({1}, EntryRouterData, Shortlists, MaxRetriesConfigs, StepUpConfigs)

\* ---------------------------------------------------------------- actions
\* variant: the new count skips a number
NewAttemptCount_Skips(payment_intent) == payment_intent.attempt_count + 2

\* modify_trackers, line 345: the count of the attempt to insert
NewAttemptCount(payment_intent) == payment_intent.attempt_count + 1

\* variant: the step-up retry is not counted
RetryPaymentCount_StandardOnly(is_step_up) == IF is_step_up THEN 0 ELSE 1

\* do_retry, line 296: what one call adds to AUTO_RETRY_PAYMENT_COUNT
RetryPaymentCount(is_step_up) == 1

\* do_retry up to the first repository call of modify_trackers: the counter,
\* new_attempt_count and new_payment_attempt
BeginRetry(t, connector, is_step_up) ==
    /\ cur' = [cur EXCEPT ![t] =
                 [connector |-> connector, is_step_up |-> is_step_up,
                  new_attempt_count |-> NewAttemptCount(payment_data[t].payment_intent),
                  new_payment_attempt |->
                      make_new_payment_attempt(connector, payment_data[t].payment_attempt,
                          NewAttemptCount(payment_data[t].payment_intent), is_step_up)]]
    /\ pc' = [pc EXCEPT ![t] = "mt_update"]

Finish(t, result) ==
    /\ pc' = [pc EXCEPT ![t] = "done"]
    /\ outcome' = [outcome EXCEPT ![t] = result]

\* variant: the step-up is made only while the configured budget is positive
StepUpDecision_NeedsBudget(t) ==
    /\ ShouldStepUp(get_gsm(router_data[t]), payment_data[t].payment_attempt,
                    cfg_step_up, OriginalConnector)
    /\ cfg_max_retries.tag = "int" /\ cfg_max_retries.int > 0

\* do_gsm_actions, lines 64-83: should_step_up on the arguments of the call
StepUpDecision(t) ==
    ShouldStepUp(get_gsm(router_data[t]), payment_data[t].payment_attempt,
                 cfg_step_up, OriginalConnector)

\* do_gsm_actions, lines 57-101: the initial GSM lookup and the step-up gate
Start(t) ==
    /\ pc[t] = "start"
    /\ initial_gsm' = [initial_gsm EXCEPT ![t] = get_gsm(router_data[t])]
    /\ IF StepUpDecision(t)
       THEN /\ BeginRetry(t, OriginalConnector, TRUE)
            /\ metrics' = [metrics EXCEPT ![t].eligible = @ + 1,
                                          ![t].payment = @ + RetryPaymentCount(TRUE)]
            /\ hist' = [hist EXCEPT ![t].step_ups = @ + 1, ![t].updated = FALSE,
                                    ![t].inserted = FALSE, ![t].advanced = FALSE]
       ELSE /\ pc' = [pc EXCEPT ![t] = "loop"]
            /\ metrics' = [metrics EXCEPT ![t].eligible = @ + 1]
            /\ UNCHANGED <<cur, hist>>
    /\ UNCHANGED <<attempts, intent, cfg_max_retries, cfg_step_up, cfg_should_call_gsm, calc,
                   router_data, connectors,
                   payment_data, retries, outcome>>

\* variant: on DoDefault the loop goes round again instead of ending
AfterDoDefault_Continues(decision) == "loop"

\* do_gsm_actions, line 157: `GsmDecision::DoDefault => break`, and the
\* Ok(router_data) after the loop (line 162)
AfterDoDefault(decision) == "done"

\* the GSM record one loop iteration decides on
LoopGsm(t) == IF initial_gsm[t].present THEN initial_gsm[t] ELSE get_gsm(router_data[t])

\* do_gsm_actions, lines 104-160: one iteration of the loop up to do_retry
Loop(t) ==
    /\ pc[t] = "loop"
    /\ LET gsm == LoopGsm(t)
           decision == get_gsm_decision(gsm)
           matched == GsmMatchCount(gsm)
           fetched == get_retries(retries[t], cfg_max_retries)
           reads == IF retries[t].some THEN 0 ELSE 1
       IN CASE decision = "Retry" ->
                 /\ retries' = [retries EXCEPT ![t] = fetched]
                 /\ IF RetriesExhausted(fetched) \/ ConnectorsExhausted(connectors[t])
                    THEN /\ Finish(t, "Ok")
                         /\ metrics' = [metrics EXCEPT ![t].gsm_match = @ + matched,
                                           ![t].exhausted = @ + ExhaustedCount(
                                               RetriesExhausted(fetched),
                                               ConnectorsExhausted(connectors[t]))]
                         /\ hist' = [hist EXCEPT ![t].cfg_reads = @ + reads]
                         /\ UNCHANGED <<cur, connectors>>
                    ELSE IF get_connector_data(connectors[t]) = None
                    THEN /\ Finish(t, "InternalServerError")
                         /\ metrics' = [metrics EXCEPT ![t].gsm_match = @ + matched]
                         /\ hist' = [hist EXCEPT ![t].cfg_reads = @ + reads]
                         /\ UNCHANGED <<cur, connectors>>
                    ELSE /\ BeginRetry(t, StandardRetryConnector(connectors[t]), FALSE)
                         /\ connectors' = [connectors EXCEPT ![t] = Tail(@)]
                         /\ metrics' = [metrics EXCEPT ![t].gsm_match = @ + matched,
                                                       ![t].payment = @ + RetryPaymentCount(FALSE)]
                         /\ hist' = [hist EXCEPT ![t].cfg_reads = @ + reads,
                                                 ![t].std_retries = @ + 1,
                                                 ![t].updated = FALSE,
                                                 ![t].inserted = FALSE,
                                                 ![t].advanced = FALSE]
                         /\ UNCHANGED outcome
            [] decision = "Requeue" ->
                 /\ Finish(t, "NotImplemented")
                 /\ metrics' = [metrics EXCEPT ![t].gsm_match = @ + matched]
                 /\ UNCHANGED <<retries, cur, connectors, hist>>
            [] OTHER ->
                 /\ pc' = [pc EXCEPT ![t] = AfterDoDefault(decision)]
                 /\ outcome' = [outcome EXCEPT ![t] =
                        IF AfterDoDefault(decision) = "done" THEN "Ok" ELSE @]
                 /\ metrics' = [metrics EXCEPT ![t].gsm_match = @ + matched]
                 /\ UNCHANGED <<retries, cur, connectors, hist>>
    /\ UNCHANGED <<attempts, intent, cfg_max_retries, cfg_step_up, cfg_should_call_gsm, calc, router_data,
                   payment_data, initial_gsm>>

\* what a repository call may do besides what the rows force
DbResults == {"ok", "backend_error"}

\* to_not_found_response / to_duplicate_response: the error the request gets
ToNotFoundResponse(err) == IF err = "NotFound" THEN "PaymentNotFound" ELSE "InternalServerError"
ToDuplicateResponse(err) == IF err = "Duplicate" THEN "DuplicatePayment" ELSE "InternalServerError"

\* insert_payment_attempt: the id must be new
InsertError(rows, new, res) ==
    IF res # "ok" THEN "Backend"
    ELSE IF rows[new.attempt_id].exists THEN "Duplicate" ELSE None

\* update_payment_attempt_with_attempt_id: the row must be there
UpdateError(rows, id, res) ==
    IF res # "ok" THEN "Backend"
    ELSE IF ~rows[id].exists THEN "NotFound" ELSE None

\* what get_gsm may return inside modify_trackers: the record of the table, or
\* none when the record has been removed since the decision was taken or the
\* store failed (get_gsm_record turns a store error into none); only the Err
\* arm looks up
GsmLookups(rd) == IF rd.kind = "Err" THEN {get_gsm(rd), NoGsm} ELSE {NoGsm}

\* the change-set modify_trackers sends for a response, if it sends one
TerminalChangeSet(rd, snapshot, option_gsm) ==
    IF rd.kind = "Txn" THEN ResponseUpdate(rd) ELSE ErrorUpdate(rd, snapshot, option_gsm)

\* the arm `Ok(_) => return Ok(())` of modify_trackers
SkipsTrackers(rd) == rd.kind = "Other"

\* variant: the result of the terminal update is not propagated with `?`
UpdateReturns_ErrorSwallowed(err) == FALSE

\* modify_trackers returns at the terminal update when the update gave an error
UpdateReturns(err) == err # None

\* modify_trackers, lines 354-458: the terminal update of the current attempt;
\* the payment-method data helper before the match can fail in every arm, and
\* in the two writing arms that failure is one with a failure of the write
TerminalUpdate(t) ==
    /\ pc[t] = "mt_update"
    /\ LET rd == router_data[t]
           snapshot == payment_data[t].payment_attempt
       IN IF SkipsTrackers(rd)
          THEN \E pm_data_ok \in BOOLEAN :
                 IF pm_data_ok
                 THEN /\ pc' = [pc EXCEPT ![t] = "call"]
                      /\ UNCHANGED <<attempts, outcome, hist>>
                 ELSE /\ Finish(t, "InternalServerError")
                      /\ UNCHANGED <<attempts, hist>>
          ELSE \E res \in DbResults, option_gsm \in GsmLookups(rd) :
                 LET err == UpdateError(attempts, snapshot.attempt_id, res)
                 IN IF UpdateReturns(err)
                    THEN /\ Finish(t, ToNotFoundResponse(err))
                         /\ hist' = [hist EXCEPT ![t].db_error = err]
                         /\ UNCHANGED attempts
                    ELSE /\ attempts' = IF err = None
                                        THEN [attempts EXCEPT ![snapshot.attempt_id] =
                                                 ApplyAttemptUpdate(@,
                                                     TerminalChangeSet(rd, snapshot, option_gsm))]
                                        ELSE attempts
                         /\ pc' = [pc EXCEPT ![t] = "mt_insert"]
                         /\ hist' = [hist EXCEPT ![t].updated = (err = None),
                                                 ![t].db_error = err,
                                                 ![t].option_gsm = option_gsm,
                                                 ![t].applied =
                                                     IF err = None
                                                     THEN [some |-> TRUE,
                                                           id |-> snapshot.attempt_id,
                                                           cs |-> TerminalChangeSet(rd, snapshot,
                                                                                    option_gsm),
                                                           after |-> attempts'[snapshot.attempt_id]]
                                                     ELSE @]
                         /\ UNCHANGED outcome
    /\ UNCHANGED <<intent, cfg_max_retries, cfg_step_up, cfg_should_call_gsm, calc,
                   router_data, connectors,
                   payment_data, retries, initial_gsm, cur, metrics>>

\* variant: the result of the insert is not propagated with `?`
InsertReturns_ErrorSwallowed(err) == FALSE

\* modify_trackers returns at the insert when the insert gave an error
InsertReturns(err) == err # None

\* modify_trackers, lines 460-468: insert of the new attempt
InsertAttempt(t) ==
    /\ pc[t] = "mt_insert"
    /\ \E res \in DbResults :
         LET new == cur[t].new_payment_attempt
             err == InsertError(attempts, new, res)
         IN IF InsertReturns(err)
            THEN /\ Finish(t, ToDuplicateResponse(err))
                 /\ hist' = [hist EXCEPT ![t].db_error = err]
                 /\ UNCHANGED <<attempts, payment_data>>
            ELSE /\ attempts' = IF err = None
                                THEN [attempts EXCEPT ![new.attempt_id] = new]
                                ELSE attempts
                 /\ payment_data' = [payment_data EXCEPT ![t].payment_attempt = new]
                 /\ pc' = [pc EXCEPT ![t] = "mt_intent"]
                 /\ hist' = [hist EXCEPT ![t].inserted = (err = None)]
                 /\ UNCHANGED outcome
    /\ UNCHANGED <<intent, cfg_max_retries, cfg_step_up, cfg_should_call_gsm, calc,
                   router_data, connectors,
                   retries, initial_gsm, cur, metrics>>

\* PaymentIntentUpdate::PaymentAttemptAndAttemptCountUpdate applied to the row
ApplyIntentUpdate(row, active_attempt_id, attempt_count) ==
    [row EXCEPT !.active_attempt_id = active_attempt_id, !.attempt_count = attempt_count]

\* modify_trackers, lines 470-485: the intent update
UpdateIntent(t) ==
    /\ pc[t] = "mt_intent"
    /\ \E res \in DbResults :
         IF res = "ok"
         THEN /\ intent' = ApplyIntentUpdate(intent,
                               payment_data[t].payment_attempt.attempt_id,
                               cur[t].new_attempt_count)
              /\ payment_data' = [payment_data EXCEPT ![t].payment_intent = intent']
              /\ pc' = [pc EXCEPT ![t] = "call"]
              /\ hist' = [hist EXCEPT ![t].advanced = TRUE]
              /\ UNCHANGED outcome
         ELSE /\ Finish(t, ToNotFoundResponse("Backend"))
              /\ hist' = [hist EXCEPT ![t].db_error = "Backend"]
              /\ UNCHANGED <<intent, payment_data>>
    /\ UNCHANGED <<attempts, cfg_max_retries, cfg_step_up, cfg_should_call_gsm, calc,
                   router_data, connectors,
                   retries, initial_gsm, cur, metrics>>

\* variant: the record of the first lookup is kept for the next iteration
AfterIterationGsm_Kept(gsm) == gsm

\* do_gsm_actions, line 159: initial_gsm = None at the end of an iteration
AfterIterationGsm(gsm) == NoGsm

\* variant: do_gsm_actions keeps the RouterData it had before the retry
AfterRetryRouterData_Kept(before, returned) == before

\* do_gsm_actions, lines 84 and 129: router_data = do_retry(..).await?
AfterRetryRouterData(before, returned) == returned

\* do_retry, lines 309-328: call_connector_service under the current
\* payment_data, and the return into do_gsm_actions (lines 100, 146-159)
CallConnector(t) ==
    /\ pc[t] = "call"
    /\ \/ \E resp \in Responses, auth \in AuthTypes :
            /\ router_data' = [router_data EXCEPT ![t] =
                   AfterRetryRouterData(@, RouterData(cur[t].connector, resp, auth,
                                               payment_data[t].payment_attempt.attempt_id))]
            /\ hist' = [hist EXCEPT ![t].invoked =
                   Append(@, <<cur[t].connector, payment_data[t].payment_attempt.attempt_id,
                               hist[t].updated, hist[t].inserted, hist[t].advanced>>),
                                    ![t].produced =
                   RouterData(cur[t].connector, resp, auth,
                              payment_data[t].payment_attempt.attempt_id)]
            /\ pc' = [pc EXCEPT ![t] = AfterRetry(cur[t].is_step_up)]
            /\ outcome' = [outcome EXCEPT ![t] =
                   IF AfterRetry(cur[t].is_step_up) = "done" THEN "Ok" ELSE @]
            /\ IF cur[t].is_step_up
               THEN UNCHANGED <<retries, initial_gsm>>
               ELSE /\ retries' = [retries EXCEPT ![t] = DecrementRetries(@)]
                    /\ initial_gsm' = [initial_gsm EXCEPT ![t] = AfterIterationGsm(@)]
       \/ /\ Finish(t, "InternalServerError")
          /\ UNCHANGED <<router_data, hist, retries, initial_gsm>>
    /\ UNCHANGED <<attempts, intent, cfg_max_retries, cfg_step_up, cfg_should_call_gsm, calc, connectors,
                   payment_data, cur, metrics>>

Next == \E t \in Tasks :
           \/ Start(t)
           \/ Loop(t)
           \/ TerminalUpdate(t)
           \/ InsertAttempt(t)
           \/ UpdateIntent(t)
           \/ CallConnector(t)

Spec == Init /\ [][Next]_vars

\* do_gsm_actions is one sequential async function: every call it awaits
\* (config store, GSM store, repository, connector) returns, so the step the
\* function is at is eventually taken
InitLive ==
    InitFor({1}, {rd \in EntryRouterData : rd.auth_type = "NoThreeDs"},
            Shortlists, MaxRetriesConfigs, {CfgList({"A"})})
SpecLive == InitLive /\ [][Next]_vars /\ WF_vars(Next)

\* what the first invocation of a payment may have returned: an error or a
\* transaction response, under any attempt status
FirstResponses ==
    [kind : {"Err"}, code : {"E_RETRY"}, status : AttemptStatuses]
        \cup [kind : {"Txn"}, code : {NoCode}, status : AttemptStatuses]

\* the caller of do_gsm_actions: the call is made only for a RouterData that
\* passes should_call_gsm
Gate(t) ==
    /\ pc[t] = "gate"
    /\ pc' = [pc EXCEPT ![t] = IF should_call_gsm(router_data[t]) THEN "start" ELSE "idle"]
    /\ UNCHANGED <<attempts, intent, cfg_max_retries, cfg_step_up, cfg_should_call_gsm, calc,
                   router_data, connectors,
                   payment_data, retries, initial_gsm, cur, outcome, metrics, hist>>

\* config_should_call_gsm: the key is read with the default "false"; the
\* answer is true only when the stored text is exactly "true", and a store
\* error is logged and answered with false
config_should_call_gsm_StoreErrorOpens(cfg) ==
    IF cfg.tag = "error" THEN TRUE
    ELSE (IF cfg.tag = "absent" THEN "false" ELSE cfg.text) = "true"
config_should_call_gsm(cfg) ==
    IF cfg.tag = "error" THEN FALSE
    ELSE (IF cfg.tag = "absent" THEN "false" ELSE cfg.text) = "true"

\* the caller consults the merchant's should_call_gsm config before it looks
\* at the RouterData
ConfigGate(t) ==
    /\ pc[t] = "cfg_gate"
    /\ pc' = [pc EXCEPT ![t] = IF config_should_call_gsm(cfg_should_call_gsm)
                                THEN "gate" ELSE "idle"]
    /\ UNCHANGED <<attempts, intent, cfg_max_retries, cfg_step_up, cfg_should_call_gsm, calc,
                   router_data, connectors, payment_data, retries, initial_gsm, cur,
                   outcome, metrics, hist>>

\* one request under every state of the three config keys
InitConfig ==
    InitAt("cfg_gate", {1},
           {RouterData(OriginalConnector, r, a, get_attempt_id(1)) :
               r \in {x \in FirstResponses : x.status \in {"Failure", "Charged"}},
               a \in AuthTypes},
           {<<>>, <<"B">>}, {CfgAbsent, CfgGarbage, CfgStoreError, CfgInt(1)},
           {CfgAbsent, CfgGarbage, CfgStoreError, CfgList({"A"})}, ShouldCallGsmConfigs)
NextConfig == (\E t \in Tasks : ConfigGate(t) \/ Gate(t)) \/ Next
SpecConfig == InitConfig /\ [][NextConfig]_vars

\* one request, from the result of its first invocation on
InitCaller ==
    InitAt("gate", {1},
           {RouterData(OriginalConnector, r, a, get_attempt_id(1)) :
               r \in FirstResponses, a \in AuthTypes},
           {<<>>, <<"B">>}, {CfgInt(1)}, {CfgAbsent, CfgList({"A"})}, {CfgText("true")})
NextCaller == (\E t \in Tasks : Gate(t)) \/ Next
SpecCaller == InitCaller /\ [][NextCaller]_vars

\* two requests on the same payment, both holding the intent at attempt_count 1
InitConcurrent ==
    InitFor(Tasks, {rd \in EntryRouterData : rd.kind = "Err" /\ rd.code \in {"E_RETRY", "E_STEPUP"}},
            {<<>>, <<"B">>}, {CfgInt(1)}, {CfgAbsent, CfgList({"A"})})
SpecConcurrent == InitConcurrent /\ [][Next]_vars

\* two requests on the same payment, both entered with a transaction response
\* of a failed status
InitReplay ==
    InitFor(Tasks, {RouterData(OriginalConnector, r, a, get_attempt_id(1)) :
                       r \in {x \in FirstResponses :
                                 x.kind = "Txn" /\ x.status \in {"AuthenticationFailed", "Failure"}},
                       a \in AuthTypes},
            {<<>>, <<"B">>}, {CfgInt(1)}, {CfgAbsent, CfgList({"A"})})
SpecReplay == InitReplay /\ [][Next]_vars

\* two requests on the same payment, each with budget and fallbacks for two
\* standard retries, one of them possibly entered with a response that is
\* neither an error nor a transaction response
InitRace ==
    InitFor(Tasks, {rd \in EntryRouterData :
                       /\ (rd.kind = "Err" /\ rd.code = "E_RETRY") \/ rd.kind = "Other"
                       /\ rd.auth_type = "NoThreeDs"},
            {<<"B", "C">>}, {CfgInt(2)}, {CfgAbsent})
SpecRace == InitRace /\ [][Next]_vars

TypeOK ==
    /\ \A t \in Tasks : pc[t] \in {"idle", "cfg_gate", "gate", "start", "loop", "mt_update", "mt_insert",
                                   "mt_intent", "call", "done"}
    /\ \A t \in Tasks : outcome[t] \in {"running", "Ok", "NotImplemented", "DuplicatePayment",
                                        "PaymentNotFound", "InternalServerError"}
    /\ \A t \in Tasks : (pc[t] = "done") <=> (outcome[t] # "running")
    /\ \A i \in AttemptIds : attempts[i].exists => attempts[i].attempt_id = i

\* ------------------------------------------------------------ properties
\* the tasks that run a call
Running == {t \in Tasks : pc[t] # "idle"}

\* the GSM record of a RouterData asks for a retry / stops the loop
RetryCase(gsm) == gsm.present /\ gsm.decision = "retry"
RequeueCase(gsm) == gsm.present /\ gsm.decision = "requeue"
DoDefaultCase(gsm) == ~gsm.present \/ gsm.decision \notin {"retry", "requeue"}

\* the three conditions of the step-up gate, on the arguments of the call
StepUpGate(t) ==
    /\ get_gsm(hist[t].entry).present
    /\ get_gsm(hist[t].entry).step_up_possible
    /\ hist[t].entry_auth = "NoThreeDs"
    /\ cfg_step_up.tag = "list"
    /\ OriginalConnector \in cfg_step_up.list

\* a budget of at least n is configured
BudgetAtLeast(n) == cfg_max_retries.tag = "int" /\ cfg_max_retries.int >= n

\* C1: once the gate has been evaluated, the call has issued exactly one
\* step-up retry if step_up_possible, NoThreeDs and the allow-list all hold, and
\* none otherwise; the step-up retry runs on the original connector, and the
\* attempt inserted for it has authentication_type ThreeDs.
C1_StepUpGating ==
    \A t \in Running :
        /\ pc[t] # "start" =>
              hist[t].step_ups = (IF StepUpGate(t) THEN 1 ELSE 0)
        /\ cur[t].is_step_up =>
              /\ cur[t].connector = OriginalConnector
              /\ hist[t].inserted =>
                    /\ payment_data[t].payment_attempt.authentication_type = "ThreeDs"
                    /\ payment_data[t].payment_attempt.connector = OriginalConnector
                    /\ attempts[get_attempt_id(cur[t].new_attempt_count)].authentication_type
                           = "ThreeDs"
                    /\ attempts[get_attempt_id(cur[t].new_attempt_count)].connector
                           = OriginalConnector
              /\ \A i \in 1..Len(hist[t].invoked) :
                    hist[t].invoked[i][1] = OriginalConnector

\* C1 witness: a step-up retry has inserted its attempt and called the connector
C1_Witness ==
    \E t \in Running :
        /\ pc[t] = "done" /\ outcome[t] = "Ok"
        /\ StepUpGate(t)
        /\ hist[t].step_ups = 1 /\ hist[t].inserted
        /\ Len(hist[t].invoked) = 1

\* C2 as claimed: a call that made the step-up retry and got a result that maps
\* to Retry, with budget and a fallback left, goes on to a standard retry.
C2_Claimed ==
    \A t \in Running :
        ( /\ pc[t] = "done" /\ outcome[t] = "Ok"
          /\ hist[t].step_ups = 1 /\ hist[t].advanced
          /\ RetryCase(get_gsm(router_data[t]))
          /\ BudgetAtLeast(1)
          /\ Len(hist[t].entry_connectors) >= 1 )
        => hist[t].std_retries >= 1

\* C2: a call that made the step-up retry makes no standard retry: it reads no
\* budget, takes no connector from the shortlist, and returns the RouterData of
\* the step-up invocation.
C2_StepUpEndsCall ==
    \A t \in Running :
        hist[t].step_ups >= 1 =>
            /\ hist[t].std_retries = 0
            /\ hist[t].cfg_reads = 0
            /\ connectors[t] = hist[t].entry_connectors
            /\ pc[t] \in {"mt_update", "mt_insert", "mt_intent", "call", "done"}
            /\ (pc[t] = "done" /\ outcome[t] = "Ok") =>
                  /\ Len(hist[t].invoked) = 1
                  /\ router_data[t].connector = OriginalConnector

\* C2 witness: the step-up result maps to Retry while budget and fallbacks remain
C2_Witness ==
    \E t \in Running :
        /\ pc[t] = "done" /\ outcome[t] = "Ok"
        /\ hist[t].step_ups = 1 /\ hist[t].advanced
        /\ RetryCase(get_gsm(router_data[t]))
        /\ BudgetAtLeast(1)
        /\ Len(hist[t].entry_connectors) >= 1

\* C3: with the step-up gate false and max_auto_retries = N >= 0, a call makes
\* at most N standard retries, so at most N connector invocations after the
\* initial one, whatever the shortlist holds.
C3_RetryBudgetBound ==
    \A t \in Running :
        (BudgetAtLeast(0) /\ ~StepUpGate(t)) =>
            /\ hist[t].std_retries <= cfg_max_retries.int
            /\ Len(hist[t].invoked) <= cfg_max_retries.int

\* C3 witness: the budget ran out while the shortlist still held a connector
C3_Witness ==
    \E t \in Running :
        /\ pc[t] = "done" /\ outcome[t] = "Ok"
        /\ BudgetAtLeast(1) /\ ~StepUpGate(t)
        /\ hist[t].std_retries = cfg_max_retries.int
        /\ Len(hist[t].invoked) = cfg_max_retries.int
        /\ Len(connectors[t]) >= 1
        /\ RetryCase(get_gsm(router_data[t]))

\* the call of t has just taken one step of the retry loop
LoopStep(t) == pc[t] = "loop" /\ pc'[t] # "loop"

\* C4: with the step-up gate false and K connectors in the shortlist, a call
\* makes at most K standard retries, so at most K invocations after the initial
\* one, whatever the budget; and a Retry decision that finds the shortlist empty
\* ends the call with the current RouterData and no invocation.
C4_ConnectorListBound ==
    /\ [](\A t \in Running :
            ~StepUpGate(t) =>
                /\ hist[t].std_retries <= Len(hist[t].entry_connectors)
                /\ Len(hist[t].invoked) <= Len(hist[t].entry_connectors))
    /\ [][\A t \in Running :
            (LoopStep(t) /\ RetryCase(LoopGsm(t)) /\ connectors[t] = <<>>) =>
                /\ pc'[t] = "done" /\ outcome'[t] = "Ok"
                /\ router_data'[t] = router_data[t]
                /\ hist'[t].invoked = hist[t].invoked
                /\ hist'[t].std_retries = hist[t].std_retries]_vars

\* C4 witness: every connector of a shortlist of at least one was used, the
\* budget was larger, and the last Retry decision found the shortlist empty
C4_Witness ==
    \E t \in Running :
        /\ pc[t] = "done" /\ outcome[t] = "Ok"
        /\ ~StepUpGate(t)
        /\ Len(hist[t].entry_connectors) >= 1
        /\ BudgetAtLeast(Len(hist[t].entry_connectors) + 1)
        /\ hist[t].std_retries = Len(hist[t].entry_connectors)
        /\ connectors[t] = <<>>
        /\ RetryCase(LoopGsm(t))

\* the call of t ended in the Retry arm, on the budget or on the shortlist
EndedExhausted(t) ==
    /\ pc[t] = "done" /\ outcome[t] = "Ok"
    /\ hist[t].step_ups = 0
    /\ RetryCase(LoopGsm(t))

\* C5: a call adds exactly 1 to AUTO_RETRY_EXHAUSTED_COUNT when it ends because
\* a Retry decision met no remaining budget or an empty shortlist, and adds
\* nothing while it runs or when it ends by DoDefault, by Requeue, by the
\* step-up path or by an error.
C5_ExhaustedCountedOnce ==
    \A t \in Running :
        metrics[t].exhausted = (IF EndedExhausted(t) THEN 1 ELSE 0)

\* C5 witness: budget 1, the original connector and the one fallback tried both
\* answered with a Retry code, and the counter stands at 1
C5_Witness ==
    \E t \in Running :
        /\ EndedExhausted(t)
        /\ cfg_max_retries = CfgInt(1)
        /\ hist[t].std_retries = 1
        /\ hist[t].entry.kind = "Err" /\ router_data[t].kind = "Err"
        /\ metrics[t].exhausted = 1

\* C6: a loop iteration whose GSM record is absent or carries neither retry nor
\* requeue ends the call with Ok and the current RouterData: no do_retry, no
\* read of the budget, no write to the repository.
C6_DoDefaultNoRetry ==
    [][\A t \in Running :
          (pc[t] = "loop" /\ DoDefaultCase(LoopGsm(t))) =>
              /\ pc'[t] = "done" /\ outcome'[t] = "Ok"
              /\ router_data'[t] = router_data[t]
              /\ hist'[t] = hist[t]
              /\ retries'[t] = retries[t]
              /\ connectors'[t] = connectors[t]
              /\ metrics'[t].payment = metrics[t].payment
              /\ attempts' = attempts /\ intent' = intent]_vars

\* C6 witness: the call ended on DoDefault with budget and connectors left
C6_Witness ==
    \E t \in Running :
        /\ pc[t] = "done" /\ outcome[t] = "Ok"
        /\ DoDefaultCase(LoopGsm(t))
        /\ hist[t].step_ups = 0
        /\ ~retries[t].some /\ BudgetAtLeast(1)
        /\ Len(connectors[t]) >= 1

\* the row of the attempt under which the last connector invocation ran
\* carries the failure that invocation returned
FailurePersisted(t) ==
    /\ attempts[router_data[t].attempt_id].status = "Failure"
    /\ attempts[router_data[t].attempt_id].error_code = router_data[t].code

\* C7 as claimed: a call whose first decision is Requeue returns
\* NotImplemented, has written the failure of the initial attempt to its row,
\* has inserted no attempt and has not advanced the intent.
C7_Claimed ==
    \A t \in Running :
        (pc[t] = "done" /\ RequeueCase(LoopGsm(t)) /\ hist[t].step_ups = 0
            /\ hist[t].std_retries = 0) =>
            /\ outcome[t] = "NotImplemented"
            /\ FailurePersisted(t)
            /\ \A i \in AttemptIds \ {get_attempt_id(1)} : ~attempts[i].exists
            /\ intent = InitialIntent

\* C8 as claimed: whenever the call is about to decide on a failed response, or
\* has returned with one, that failure is on the row of its attempt.
C8_Claimed ==
    \A t \in Running :
        (pc[t] \in {"loop", "done"} /\ router_data[t].kind = "Err") => FailurePersisted(t)

\* C9 as claimed: within one do_retry the insert follows the terminal update,
\* the intent update follows the insert, and every connector invocation of a
\* retry follows all three; one do_retry invokes the connector at most once.
C9_Claimed ==
    \A t \in Running :
        /\ hist[t].inserted => hist[t].updated
        /\ hist[t].advanced => hist[t].inserted
        /\ Len(hist[t].invoked) <= hist[t].step_ups + hist[t].std_retries
        /\ \A i \in 1..Len(hist[t].invoked) :
              hist[t].invoked[i][3] /\ hist[t].invoked[i][4] /\ hist[t].invoked[i][5]

\* the id of the attempt the running do_retry of t is to insert
NewAttemptId(t) == cur[t].new_payment_attempt.attempt_id

\* C10: an insert that finds the attempt id taken ends the request with
\* DuplicatePayment at that step: no row and no intent field changes, the
\* in-memory payment_data stays as it was, no connector is invoked; the terminal
\* update of the prior attempt stays applied.
C10_DuplicateAborts ==
    /\ [][\A t \in Running :
            ( /\ pc[t] = "mt_insert" /\ pc'[t] # "mt_insert"
              /\ attempts[NewAttemptId(t)].exists
              /\ hist'[t].db_error # "Backend" ) =>
                /\ pc'[t] = "done" /\ outcome'[t] = "DuplicatePayment"
                /\ attempts' = attempts /\ intent' = intent
                /\ payment_data'[t] = payment_data[t]
                /\ hist'[t].invoked = hist[t].invoked]_vars
    /\ [](\A t \in Running :
            outcome[t] = "DuplicatePayment" =>
                /\ hist[t].db_error = "Duplicate"
                /\ hist[t].updated /\ ~hist[t].inserted /\ ~hist[t].advanced
                /\ attempts[payment_data[t].payment_attempt.attempt_id].status
                       = TerminalChangeSet(router_data[t], payment_data[t].payment_attempt,
                                           hist[t].option_gsm).status
                /\ payment_data[t].payment_intent.attempt_count + 1 = cur[t].new_attempt_count
                /\ Len(hist[t].invoked) + 1 = hist[t].step_ups + hist[t].std_retries)

\* C10 witness: a request ended with DuplicatePayment after the terminal update
\* of its attempt, the other request having inserted the same attempt id
C10_Witness ==
    \E t \in Running :
        /\ outcome[t] = "DuplicatePayment"
        /\ hist[t].updated
        /\ attempts[get_attempt_id(1)].status = "Failure"
        /\ attempts[get_attempt_id(cur[t].new_attempt_count)].exists

\* the first do_retry of t is through modify_trackers, and no repository or
\* connector failure has ended the call
FirstIterationSettled(t) ==
    /\ hist[t].step_ups + hist[t].std_retries = 1
    /\ pc[t] \in {"call", "loop", "done"}
    /\ hist[t].db_error # "Backend"
    /\ outcome[t] # "InternalServerError"

\* C11 as claimed: of two requests that both read the intent at attempt_count 1
\* and run a retry iteration concurrently, exactly one inserts attempt 2 and
\* advances the intent; the other gets DuplicatePayment at its insert, advances
\* nothing and invokes no connector.
C11_Claimed ==
    \A w \in Running, l \in Running :
        ( /\ w < l
          /\ FirstIterationSettled(w) /\ FirstIterationSettled(l)
          /\ cur[w].new_attempt_count = 2 /\ cur[l].new_attempt_count = 2 )
        => \E a \in {w, l}, b \in {w, l} :
              /\ a # b
              /\ hist[a].inserted /\ hist[a].advanced
              /\ ~hist[b].inserted /\ ~hist[b].advanced
              /\ outcome[b] = "DuplicatePayment"
              /\ Len(hist[b].invoked) = 0

\* the running do_retry of t has just written the intent
IntentWritten(t) == pc[t] = "mt_intent" /\ pc'[t] = "call"

\* C12: every write of attempt_count to the intent of the payment stores the
\* stored value plus 1, whichever request and whichever kind of retry makes it,
\* and no step lowers the stored value or changes it by more than 1.
C12_AttemptCountMonotone ==
    [][/\ intent'.attempt_count \in {intent.attempt_count, intent.attempt_count + 1}
       /\ \A t \in Running :
             IntentWritten(t) => intent'.attempt_count = intent.attempt_count + 1]_vars

\* C12 witness: the intent was advanced twice while the other request lost the
\* race for an attempt id
C12_Witness ==
    \E t \in Running :
        /\ outcome[t] = "DuplicatePayment"
        /\ intent.attempt_count = 3

\* every do_retry the call of t has made so far returned Ok
IterationsSucceeded(t) ==
    /\ pc[t] \in {"loop", "done"}
    /\ outcome[t] \in {"running", "Ok", "NotImplemented"}

\* C13 as claimed: an attempt a retry inserts has the id derived from the
\* payment id and the in-memory attempt_count + 1, and after every retry
\* iteration that succeeded the intent holds attempt_count = new count and
\* active_attempt_id = the id derived from it (2 after one retry, 3 after two).
C13_Claimed ==
    /\ [][\A t \in Running :
            (pc[t] = "mt_insert" /\ pc'[t] = "mt_intent") =>
                LET id == get_attempt_id(payment_data[t].payment_intent.attempt_count + 1)
                IN /\ ~attempts[id].exists /\ attempts'[id].exists
                   /\ attempts'[id].attempt_id = id
                   /\ payment_data'[t].payment_attempt.attempt_id = id]_vars
    /\ [](\A t \in Running :
            IterationsSucceeded(t) =>
                /\ intent.attempt_count = 1 + Len(hist[t].invoked)
                /\ intent.active_attempt_id = get_attempt_id(1 + Len(hist[t].invoked)))

\* the attempt statuses that stand for a failed payment
FailureStatuses == {"AuthenticationFailed", "AuthorizationFailed", "Failure"}

\* C14 as claimed: no step changes the status of an attempt row that stands at
\* Failure into a status that is not a failure, whether the write comes from the
\* request that failed the attempt or from a concurrent request holding an older
\* snapshot of it.
C14_Claimed ==
    [][\A i \in AttemptIds :
          (attempts[i].exists /\ attempts[i].status = "Failure") =>
              attempts'[i].status \in FailureStatuses]_vars

C16_Claimed ==
    [][/\ \A i \in AttemptIds :
             (attempts[i].exists /\ attempts[i].authentication_type = "ThreeDs") =>
                 attempts'[i].authentication_type = "ThreeDs"
       /\ \A t \in Running :
             (pc[t] = "mt_insert" /\ pc'[t] = "mt_intent") =>
                 LET old == payment_data[t].payment_attempt
                     new == payment_data'[t].payment_attempt
                 IN /\ old.authentication_type = "ThreeDs" => new.authentication_type = "ThreeDs"
                    /\ new.authentication_type # old.authentication_type =>
                          /\ hist[t].step_ups = 1
                          /\ new.authentication_type = "ThreeDs"]_vars

\* t has just written an ErrorUpdate
ErrorUpdateWritten(t) ==
    pc[t] = "mt_update" /\ pc'[t] = "mt_insert" /\ router_data[t].kind = "Err"

\* the row the running terminal update of t addresses
SnapshotId(t) == payment_data[t].payment_attempt.attempt_id

\* C17 as claimed: after every ErrorUpdate the row holds the unified_code and
\* unified_message of the GSM record found for the failed RouterData, and null
\* in both when no record was found.
C17_Claimed ==
    [][\A t \in Running :
          ErrorUpdateWritten(t) =>
              LET found == hist'[t].option_gsm
                  row == attempts'[SnapshotId(t)]
              IN /\ row.unified_code = (IF found.present THEN found.unified_code ELSE None)
                 /\ row.unified_message
                        = (IF found.present THEN found.unified_message ELSE None)]_vars

\* C17: after every ErrorUpdate whose lookup found a record, the row holds the
\* unified_code and unified_message of the record the GSM table keeps for the
\* connector and error code of the failed RouterData; an ErrorUpdate whose
\* lookup found none leaves both columns as they were, and a row no ErrorUpdate
\* has written holds null in both.
C17_UnifiedErrorMapping ==
    /\ [][\A t \in Running :
            ErrorUpdateWritten(t) =>
                LET found == hist'[t].option_gsm
                    record == get_gsm_record(router_data[t].connector, router_data[t].code)
                    old == attempts[SnapshotId(t)]
                    row == attempts'[SnapshotId(t)]
                IN /\ found.present => found = record
                   /\ row.unified_code
                          = (IF found.present THEN record.unified_code ELSE old.unified_code)
                   /\ row.unified_message
                          = (IF found.present THEN record.unified_message
                             ELSE old.unified_message)
                   /\ row.error_code = router_data[t].code]_vars
    /\ [](\A i \in AttemptIds :
            (attempts[i].exists /\ attempts[i].error_code = None) =>
                (attempts[i].unified_code = None /\ attempts[i].unified_message = None))

\* C17 witness: an ErrorUpdate that found no record has written a row that
\* holds the unified code of an earlier ErrorUpdate with another error code
C17_Witness ==
    \E t \in Running :
        /\ pc[t] = "mt_insert"
        /\ router_data[t].kind = "Err"
        /\ ~hist[t].option_gsm.present
        /\ attempts[SnapshotId(t)].error_code = router_data[t].code
        /\ attempts[SnapshotId(t)].unified_code # None
        /\ attempts[SnapshotId(t)].unified_code
               # get_gsm_record(router_data[t].connector, router_data[t].code).unified_code

\* C18: the caller goes on into do_gsm_actions exactly for a RouterData whose
\* response is an error or whose status is AuthenticationFailed,
\* AuthorizationFailed or Failure; for every other status with a successful
\* response the call is not made.
C18_ShouldCallGsmGate ==
    [][\A t \in Tasks :
          (pc[t] = "gate" /\ pc'[t] # "gate") =>
              /\ pc'[t] \in {"start", "idle"}
              /\ pc'[t] = "start" <=>
                    (router_data[t].kind = "Err" \/ router_data[t].status \in FailureStatuses)]_vars

\* C18 witness: a successful response with status AuthenticationFailed has
\* passed the gate and the call has run to its end
C18_Witness ==
    \E t \in Tasks :
        /\ pc[t] = "done"
        /\ hist[t].entry.kind = "Txn"
        /\ hist[t].entry.status = "AuthenticationFailed"

\* C19: a call reads max_auto_retries at most once, at its first Retry
\* decision, and not at a DoDefault or Requeue decision nor on the step-up
\* path; an iteration that finds the counter cached leaves it as it is, and
\* the counter goes down by exactly 1 with every standard retry that returned.
C19_LazySingleLoad ==
    /\ [](\A t \in Running :
            /\ hist[t].cfg_reads <= 1
            /\ hist[t].step_ups >= 1 => hist[t].cfg_reads = 0
            /\ hist[t].cfg_reads = 0 => ~retries[t].some
            /\ (pc[t] = "loop" /\ hist[t].cfg_reads = 1) => retries[t].some
            /\ retries[t].some =>
                  /\ cfg_max_retries.tag = "int"
                  /\ retries[t].val = cfg_max_retries.int - Len(hist[t].invoked))
    /\ [][\A t \in Running :
            /\ LoopStep(t) =>
                  /\ hist'[t].cfg_reads = hist[t].cfg_reads
                         + (IF RetryCase(LoopGsm(t)) /\ hist[t].cfg_reads = 0 THEN 1 ELSE 0)
                  /\ retries[t].some => retries'[t] = retries[t]
            /\ (pc[t] = "call" /\ pc'[t] = "loop") =>
                  /\ retries[t].some
                  /\ retries'[t] = SomeI32(retries[t].val - 1)
                  /\ hist'[t].cfg_reads = hist[t].cfg_reads]_vars

\* C19 witness: two standard retries returned after one read of the config,
\* and the counter stands two below the configured value
C19_Witness ==
    \E t \in Running :
        /\ pc[t] = "loop"
        /\ hist[t].std_retries = 2 /\ Len(hist[t].invoked) = 2
        /\ hist[t].cfg_reads = 1
        /\ BudgetAtLeast(2)
        /\ retries[t] = SomeI32(cfg_max_retries.int - 2)

\* C20: the step-up retry is made whenever its own gate holds, whatever
\* max_auto_retries holds, 0 and absent included; a call that made it has not
\* read max_auto_retries and its retry counter is still unset.
C20_StepUpOutsideBudget ==
    \A t \in Running :
        /\ (pc[t] # "start" /\ StepUpGate(t)) =>
              /\ hist[t].step_ups = 1
              /\ cur[t].is_step_up
        /\ hist[t].step_ups >= 1 =>
              /\ hist[t].cfg_reads = 0
              /\ retries[t] = NoneI32

\* C20 witness: the step-up retry ran to its end with no positive budget
\* configured
C20_Witness ==
    \E t \in Running :
        /\ pc[t] = "done" /\ outcome[t] = "Ok"
        /\ hist[t].step_ups = 1 /\ hist[t].advanced
        /\ Len(hist[t].invoked) = 1
        /\ cfg_max_retries \in {CfgAbsent, CfgInt(0)}

\* C21: in a call that makes standard retries, the k-th of them runs on the
\* k-th connector of the shortlist the caller gave: the attempt it inserts and
\* the invocation it makes name that connector, and the iterator holds exactly
\* the connectors behind it.
C21_ShortlistOrder ==
    \A t \in Running :
        hist[t].step_ups = 0 =>
            /\ hist[t].std_retries <= Len(hist[t].entry_connectors)
            /\ connectors[t] = SubSeq(hist[t].entry_connectors, hist[t].std_retries + 1,
                                      Len(hist[t].entry_connectors))
            /\ hist[t].std_retries >= 1 =>
                  cur[t].connector = hist[t].entry_connectors[hist[t].std_retries]
            /\ (hist[t].std_retries >= 1 /\ hist[t].inserted) =>
                  payment_data[t].payment_attempt.connector
                      = hist[t].entry_connectors[hist[t].std_retries]
            /\ \A k \in 1..Len(hist[t].invoked) :
                  hist[t].invoked[k][1] = hist[t].entry_connectors[k]

\* C21 witness: two standard retries were invoked, on the first and then on
\* the second connector of a shortlist of two or more
C21_Witness ==
    \E t \in Running :
        /\ Len(hist[t].entry_connectors) >= 2
        /\ Len(hist[t].invoked) = 2
        /\ hist[t].invoked[1][1] = "B" /\ hist[t].invoked[2][1] = "C"
        /\ hist[t].inserted
        /\ attempts[get_attempt_id(3)].exists
        /\ attempts[get_attempt_id(3)].connector = "C"

\* C22: config failures are fail-closed and never fail the request: without a
\* parseable max_auto_retries value no standard retry is made and, absent a
\* step-up, the call ends without an error of its own; without a parseable
\* step_up_enabled list (store error, garbage, or the default "[]") no step-up
\* is made; the caller proceeds past config_should_call_gsm only for the exact
\* text "true", and otherwise goes on without calling do_gsm_actions
C22_ConfigFailClosed ==
    /\ [](\A t \in Running :
            /\ cfg_max_retries.tag # "int" =>
                  /\ hist[t].std_retries = 0
                  /\ hist[t].step_ups = 0 =>
                        /\ outcome[t] \in {"running", "Ok", "NotImplemented"}
                        /\ hist[t].invoked = <<>>
                        /\ hist[t].db_error = None
            /\ cfg_step_up.tag # "list" =>
                  /\ hist[t].step_ups = 0
                  /\ pc[t] \notin {"cfg_gate", "gate", "start"} /\ hist[t].std_retries = 0
                        /\ hist[t].invoked = <<>> =>
                        outcome[t] \in {"running", "Ok", "NotImplemented"}
            /\ pc[t] \notin {"cfg_gate", "idle"} => cfg_should_call_gsm = CfgText("true"))
    /\ [][\A t \in Tasks :
            (pc[t] = "cfg_gate" /\ pc'[t] # "cfg_gate") =>
                /\ pc'[t] = (IF cfg_should_call_gsm = CfgText("true") THEN "gate" ELSE "idle")
                /\ outcome'[t] = "running"]_vars
C22_Witness ==
    \E t \in Running :
        /\ cfg_max_retries.tag \in {"absent", "garbage", "error"}
        /\ cfg_step_up.tag \in {"garbage", "error"}
        /\ hist[t].entry.kind = "Err"
        /\ pc[t] = "done"
        /\ outcome[t] = "Ok"
        /\ metrics[t].exhausted = 1

\* the terminal update of the running do_retry was refused by the repository
UpdateFailed(t) == hist[t].db_error # None /\ ~hist[t].updated

\* C23: a repository failure during the terminal update of the current attempt
\* ends the call with an error: the failing step leaves the repository rows,
\* the in-memory payment_attempt / payment_intent and the list of connector
\* invocations as they were, and afterwards the call stands finished with no
\* insert and no intent update made by that do_retry
C23_TerminalUpdateFailureFatal ==
    /\ [](\A t \in Running :
            UpdateFailed(t) =>
                /\ pc[t] = "done"
                /\ outcome[t] \in {"PaymentNotFound", "InternalServerError"}
                /\ ~hist[t].inserted
                /\ ~hist[t].advanced
                /\ payment_data[t].payment_intent.attempt_count # cur[t].new_attempt_count
                /\ ~attempts[cur[t].new_payment_attempt.attempt_id].exists
                /\ \A k \in 1..Len(hist[t].invoked) :
                      hist[t].invoked[k][2] # cur[t].new_payment_attempt.attempt_id)
    /\ [][\A t \in Tasks :
            (pc[t] = "mt_update" /\ hist'[t].db_error # None) =>
                /\ attempts' = attempts
                /\ intent' = intent
                /\ payment_data' = payment_data
                /\ hist'[t].invoked = hist[t].invoked
                /\ router_data' = router_data]_vars
C23_Witness ==
    \E t \in Running :
        /\ UpdateFailed(t)
        /\ hist[t].std_retries = 2
        /\ Len(hist[t].invoked) = 1
        /\ outcome[t] = "InternalServerError"
        /\ payment_data[t].payment_attempt.attempt_id = get_attempt_id(2)
        /\ ~attempts[get_attempt_id(3)].exists

\* task t gets a ResponseUpdate through in this step
ResponseUpdateWritten(t) ==
    pc[t] = "mt_update" /\ hist'[t].updated /\ router_data[t].kind = "Txn"

request_vars == <<attempts, intent, cfg_max_retries, cfg_step_up, cfg_should_call_gsm, pc,
                  router_data, connectors, payment_data, retries, initial_gsm, cur, outcome,
                  metrics, hist>>

DatabaseErrors ==
    {"NotFound", "UniqueViolation", "NoFieldsToUpdate", "QueryGenerationFailed", "Others"}

MerchantId == "merchant_1"
IntentKeys == {<<"pay_1", MerchantId>>, <<"pay_2", MerchantId>>, <<"pay_1", "merchant_2">>}

\* a payment_intent row with its key columns
IntentRow(key, count) ==
    [exists |-> TRUE, payment_id |-> key[1], merchant_id |-> key[2],
     attempt_count |-> count, active_attempt_id |-> <<key[1], count>>]

NoneId == [some |-> FALSE]
SomeId(id) == [some |-> TRUE, val |-> id]

\* PaymentIntentUpdateInternal: every column optional
IntentChangeSets ==
    {[attempt_count |-> c, active_attempt_id |-> a] :
        c \in {NoneI32, SomeI32(2), SomeI32(3)},
        a \in {NoneId, SomeId(get_attempt_id(2))}}

Ok(v) == [tag |-> "Ok", val |-> v]
Err(e) == [tag |-> "Err", error |-> e]

\* variant: the predicate of the update names the payment_id only
MatchingKeys_PaymentIdOnly(table, row) ==
    {k \in IntentKeys : table[k].exists /\ k[1] = row.payment_id}

\* the rows of the table the predicate (payment_id, merchant_id) selects
MatchingKeys(table, row) ==
    {k \in IntentKeys : table[k].exists /\ k = <<row.payment_id, row.merchant_id>>}

\* generics::generic_update_with_results: an empty change-set is refused when
\* the query is built; otherwise the store fails or returns the updated rows
generic_update_with_results(table, row, cs, fault) ==
    IF ~cs.attempt_count.some /\ ~cs.active_attempt_id.some
    THEN [res |-> Err("NoFieldsToUpdate"), table |-> table]
    ELSE IF fault # None
    THEN [res |-> Err(fault), table |-> table]
    ELSE LET new == [k \in IntentKeys |->
                        IF k \in MatchingKeys(table, row)
                        THEN [table[k] EXCEPT
                                 !.attempt_count = IF cs.attempt_count.some
                                                   THEN cs.attempt_count.val ELSE @,
                                 !.active_attempt_id = IF cs.active_attempt_id.some
                                                       THEN cs.active_attempt_id.val ELSE @]
                        ELSE table[k]]
             hit == MatchingKeys(table, row)
         IN [res |-> Ok(IF hit = {} THEN <<>> ELSE <<new[CHOOSE k \in hit : TRUE]>>),
             table |-> new]

\* variant: an empty change-set is reported like every other error
PaymentIntent_update_NoFieldsIsError(self, res) ==
    IF res.tag = "Err" THEN Err(res.error)
    ELSE IF res.val = <<>> THEN Err("NotFound") ELSE Ok(res.val[Len(res.val)])

\* PaymentIntent::update: the match on the result of the generic update
PaymentIntent_update(self, res) ==
    IF res.tag = "Err"
    THEN IF res.error = "NoFieldsToUpdate" THEN Ok(self) ELSE Err(res.error)
    ELSE IF res.val = <<>> THEN Err("NotFound") ELSE Ok(res.val[Len(res.val)])

\* one call of PaymentIntent::update
UpdateCall ==
    /\ calc.fn = "PaymentIntent::update"
    /\ ~calc.done
    /\ LET r == generic_update_with_results(calc.table, calc.self, calc.cs, calc.fault)
       IN calc' = [calc EXCEPT !.done = TRUE, !.table = r.table,
                               !.out = PaymentIntent_update(calc.self, r.res)]
    /\ UNCHANGED request_vars

\* the rows the predicate of find_by_payment_id_merchant_id selects
FindMatchingKeys(table, payment_id, merchant_id) ==
    {k \in IntentKeys : table[k].exists /\ table[k].merchant_id = merchant_id
                                        /\ table[k].payment_id = payment_id}

\* generics::generic_find_one: the row the predicate selects, NotFound without one
generic_find_one(table, keys) ==
    IF keys = {} THEN Err("NotFound") ELSE Ok(table[CHOOSE k \in keys : TRUE])

\* PaymentIntent::find_by_payment_id_merchant_id
find_by_payment_id_merchant_id(table, payment_id, merchant_id) ==
    generic_find_one(table, FindMatchingKeys(table, payment_id, merchant_id))

\* one call of find_by_payment_id_merchant_id, after the update
FindCall ==
    /\ calc.fn = "PaymentIntent::update"
    /\ calc.done
    /\ ~calc.looked
    /\ calc' = [calc EXCEPT !.looked = TRUE,
                            !.found = find_by_payment_id_merchant_id(calc.table,
                                          calc.find_key[1], calc.find_key[2])]
    /\ UNCHANGED request_vars

\* the in-memory row, the change-set, the table and the store's fault (if any)
InitUpdate ==
    /\ Quiescent
    /\ \E table \in [IntentKeys -> {0, 1, 2}], key \in IntentKeys, cs \in IntentChangeSets,
          find_key \in IntentKeys,
          fault \in {None} \cup (DatabaseErrors \ {"NoFieldsToUpdate"}) :
          LET rows == [k \in IntentKeys |->
                          IF table[k] = 0 THEN NoRow ELSE IntentRow(k, table[k])]
          IN calc = [fn |-> "PaymentIntent::update", self |-> IntentRow(key, 1), cs |-> cs,
                     table |-> rows, table0 |-> rows, fault |-> fault, done |-> FALSE,
                     out |-> Err(None), find_key |-> find_key, looked |-> FALSE,
                     found |-> Err(None)]
NextUpdate == UpdateCall \/ FindCall
SpecUpdate == InitUpdate /\ [][NextUpdate]_vars

\* calls of PaymentIntent::update that have returned
UpdateReturned == calc.fn = "PaymentIntent::update" /\ calc.done
NoFields == ~calc.cs.attempt_count.some /\ ~calc.cs.active_attempt_id.some

\* C25: PaymentIntent::update returns the input row as it was given, without
\* error, when the change-set names no column; returns NotFound when the
\* change-set names a column and no row has the (payment_id, merchant_id) of the
\* input; and returns every other error of the store as it came
C25_IntentUpdateErrors ==
    UpdateReturned =>
        /\ NoFields => calc.out = Ok(calc.self) /\ calc.table = calc.table0
        /\ (~NoFields /\ calc.fault = None
               /\ ~calc.table0[<<calc.self.payment_id, calc.self.merchant_id>>].exists) =>
              calc.out = Err("NotFound") /\ calc.table = calc.table0
        /\ (~NoFields /\ calc.fault # None) =>
              calc.out = Err(calc.fault) /\ calc.table = calc.table0
C25_Witness ==
    /\ UpdateReturned
    /\ NoFields
    /\ calc.fault = "Others"
    /\ calc.table0[<<calc.self.payment_id, calc.self.merchant_id>>].exists
    /\ calc.table0[<<calc.self.payment_id, calc.self.merchant_id>>] # calc.self
    /\ calc.out.tag = "Ok"

\* ------------------------------------------------------- amount arithmetic
\* i64, Decimal and f64 values do not fit the checker's integers: a natural
\* number is the sequence of its digits to the base 10^4, most significant
\* first, without leading zeros (zero is the empty sequence). The recursive
\* definitions are functions, whose arguments are evaluated before the call,
\* and they take several digits or bits in one step to stay shallow.
Base == 10000
Limbs == Seq(0..(Base - 1))

Strip[x \in Limbs] == IF x = <<>> THEN <<>> ELSE IF Head(x) = 0 THEN Strip[Tail(x)] ELSE x

NatLimbs[i \in Nat] == IF i = 0 THEN <<>> ELSE Append(NatLimbs[i \div Base], i % Base)

Front(x) == SubSeq(x, 1, Len(x) - 1)

\* x * c + a for c and a up to 10^5
MulAdd[x \in Limbs, c \in Nat, a \in Nat] ==
    IF x = <<>> THEN NatLimbs[a]
    ELSE Strip[Append(MulAdd[Front(x), c, (x[Len(x)] * c + a) \div Base],
                      (x[Len(x)] * c + a) % Base)]

\* quotient and remainder of x by a d up to 2 * 10^5
DivAcc[x \in Limbs, d \in Nat, rem \in Nat, acc \in Limbs] ==
    IF x = <<>> THEN [q |-> Strip[acc], r |-> rem]
    ELSE DivAcc[Tail(x), d, (rem * Base + Head(x)) % d,
                Append(acc, (rem * Base + Head(x)) \div d)]
DivMod(x, d) == DivAcc[x, d, 0, <<>>]

LexLess[x \in Limbs, y \in Limbs] ==
    /\ x # <<>>
    /\ \/ Head(x) < Head(y)
       \/ Head(x) = Head(y) /\ LexLess[Tail(x), Tail(y)]
Less(x, y) == Len(x) < Len(y) \/ (Len(x) = Len(y) /\ LexLess[x, y])

IsOdd(x) == x # <<>> /\ x[Len(x)] % 2 = 1

Pow10[p \in Nat] == IF p = 0 THEN 1 ELSE 10 * Pow10[p - 1]

\* x * c^n for c at most 10, four factors at a time
MulPow[x \in Limbs, c \in Nat, n \in Nat] ==
    IF n = 0 THEN x
    ELSE IF n >= 4 THEN MulPow[MulAdd[x, c * c * c * c, 0], c, n - 4]
    ELSE MulPow[MulAdd[x, c, 0], c, n - 1]

\* x / 10^n, the remainder dropped
DivPow10[x \in Limbs, n \in Nat] ==
    IF n = 0 THEN x
    ELSE IF n >= 4 THEN DivPow10[DivMod(x, Base).q, n - 4]
    ELSE DivPow10[DivMod(x, 10).q, n - 1]

\* the number of decimal digits of x
NumDigits(x) ==
    IF x = <<>> THEN 0
    ELSE 4 * (Len(x) - 1) + (IF x[1] >= 1000 THEN 4 ELSE IF x[1] >= 100 THEN 3
                             ELSE IF x[1] >= 10 THEN 2 ELSE 1)

\* the decimal digits of x, most significant first
ToDigits(x) ==
    LET all == [i \in 1..(4 * Len(x)) |-> (x[(i + 3) \div 4] \div Pow10[3 - ((i - 1) % 4)]) % 10]
    IN SubSeq(all, 4 * Len(x) - NumDigits(x) + 1, 4 * Len(x))

\* the number with the decimal digits ds
FromDigits(ds) ==
    LET n == (Len(ds) + 3) \div 4
        pad == 4 * n - Len(ds)
        at(i) == IF i <= pad THEN 0 ELSE ds[i - pad]
    IN Strip[[j \in 1..n |-> 1000 * at(4 * j - 3) + 100 * at(4 * j - 2)
                              + 10 * at(4 * j - 1) + at(4 * j)]]

\* i64::MAX = 9223372036854775807
I64Max == <<922, 3372, 368, 5477, 5807>>

\* a binary float format: the range [lo, hi) of its mantissa
FloatFormats == [lo : Limbs, hi : Limbs]

\* the mantissa of an f64 has 53 bits: it lies in [2^52, 2^53)
F64Lo == MulPow[<<1>>, 2, 52]
F64Hi == MulPow[<<1>>, 2, 53]
F64 == [lo |-> F64Lo, hi |-> F64Hi]

\* an f64 that is not negative: the value k / 2^e when e >= 0 and k * 2^(-e)
\* when e < 0, with k below the upper end of the mantissa's range
FloatZero == [k |-> <<>>, e |-> 0]

\* x / d rounded to the nearest integer, ties to the even one
RoundHalfEven(x, d) ==
    LET qr == DivMod(x, d)
    IN IF 2 * qr.r > d \/ (2 * qr.r = d /\ IsOdd(qr.q)) THEN MulAdd[qr.q, 1, 1] ELSE qr.q

\* the binary float nearest to x / d (ties to even) in the format ty, d small:
\* x is doubled (sixteen or four times at once while that stays below the
\* range) until the quotient has the bits of the mantissa
ScaleUp[x \in Limbs, d \in Nat, e \in Int, ty \in FloatFormats] ==
    IF Less(DivMod(MulAdd[x, 65536, 0], d).q, ty.hi)
    THEN ScaleUp[MulAdd[x, 65536, 0], d, e + 16, ty]
    ELSE IF Less(DivMod(MulAdd[x, 16, 0], d).q, ty.hi)
    THEN ScaleUp[MulAdd[x, 16, 0], d, e + 4, ty]
    ELSE IF Less(DivMod(x, d).q, ty.lo)
    THEN ScaleUp[MulAdd[x, 2, 0], d, e + 1, ty]
    ELSE [k |-> RoundHalfEven(x, d), e |-> e]
ScaleDown[x \in Limbs, d \in Nat, e \in Int, ty \in FloatFormats] ==
    IF Less(DivMod(x, d).q, ty.hi)
    THEN ScaleUp[x, d, e, ty]
    ELSE ScaleDown[x, 2 * d, e - 1, ty]
ToFloat(x, d, ty) == IF x = <<>> THEN FloatZero ELSE ScaleDown[x, d, 0, ty]

\* x / 2^n rounded to the nearest integer, ties to the even one; round is the
\* last bit shifted out and sticky tells whether a one was shifted out before it
ShiftRight[x \in Limbs, n \in Nat, round \in 0..1, sticky \in BOOLEAN] ==
    IF n = 0
    THEN IF round = 1 /\ (sticky \/ IsOdd(x)) THEN MulAdd[x, 1, 1] ELSE x
    ELSE IF n > 16
    THEN ShiftRight[DivMod(x, 65536).q, n - 16, 0,
                    sticky \/ round = 1 \/ DivMod(x, 65536).r # 0]
    ELSE IF n > 4
    THEN ShiftRight[DivMod(x, 16).q, n - 4, 0, sticky \/ round = 1 \/ DivMod(x, 16).r # 0]
    ELSE ShiftRight[DivMod(x, 2).q, n - 1, DivMod(x, 2).r, sticky \/ round = 1]

\* the float times 10^p, rounded to the nearest integer (ties to even)
FloatScaled(f, p) ==
    IF f.e >= 0 THEN ShiftRight[MulAdd[f.k, Pow10[p], 0], f.e, 0, FALSE]
    ELSE MulPow[MulAdd[f.k, Pow10[p], 0], 2, 0 - f.e]

\* text: a sequence of characters
DigitChars == <<"0", "1", "2", "3", "4", "5", "6", "7", "8", "9">>
Chars(ds) == [i \in 1..Len(ds) |-> DigitChars[ds[i] + 1]]
DigitOf(c) == CHOOSE d \in 0..9 : DigitChars[d + 1] = c
IsDigits(s) == \A i \in 1..Len(s) : \E d \in 0..9 : DigitChars[d + 1] = s[i]
Value(s) == FromDigits([i \in 1..Len(s) |-> DigitOf(s[i])])

Zeros(n) == [i \in 1..n |-> 0]

\* i64 to_string / Display
I64ToString(x) == IF x = <<>> THEN <<"0">> ELSE Chars(ToDigits(x))

\* format!("{:.p}", f): the float in fixed notation with p fractional digits,
\* correctly rounded
FormatFixed(f, p) ==
    LET m == ToDigits(FloatScaled(f, p))
        padded == IF Len(m) < p + 1 THEN Zeros(p + 1 - Len(m)) \o m ELSE m
        whole == SubSeq(padded, 1, Len(padded) - p)
        frac == SubSeq(padded, Len(padded) - p + 1, Len(padded))
    IN IF p = 0 THEN Chars(whole) ELSE Chars(whole) \o <<".">> \o Chars(frac)

\* f64::to_string of a float without fractional part
FloatToString(f) == FormatFixed(f, 0)

\* a Decimal that is not negative: m / 10^scale
Dec(m, scale) == [m |-> m, scale |-> scale]

\* Decimal::from_str on plain decimal text (digits, at most one point)
PointAt(s) == IF \E i \in 1..Len(s) : s[i] = "." THEN CHOOSE i \in 1..Len(s) : s[i] = "." ELSE 0
DecimalFromStr(s) ==
    LET dot == PointAt(s)
        whole == IF dot = 0 THEN s ELSE SubSeq(s, 1, dot - 1)
        frac == IF dot = 0 THEN <<>> ELSE SubSeq(s, dot + 1, Len(s))
    IN IF s = <<>> \/ ~IsDigits(whole \o frac) \/ whole \o frac = <<>>
       THEN Err("StringToDecimalConversionFailure")
       ELSE Ok(Dec(Value(whole \o frac), Len(frac)))

\* Decimal::to_i64: the integral part, if it fits
DecimalToI64(dec) ==
    LET int == DivPow10[dec.m, dec.scale]
    IN IF Less(I64Max, int) THEN Err("DecimalToI64ConversionFailure") ELSE Ok(int)

\* Decimal::to_f64: the nearest f64
DecimalToF64(dec) == ToFloat(dec.m, Pow10[dec.scale], F64)

\* a Decimal holds 96 bits, which is 28 digits at least
DecimalDigits == 28

\* Decimal::from_f64: the decimal expansion of the float, cut to the digits a
\* Decimal holds, then rounded digit by digit until the mantissa is below 2^53,
\* trailing zeros removed
RemoveExcess[m \in Limbs, scale \in Nat] ==
    IF scale > 0 /\ (~Less(m, F64Hi) \/ DivMod(m, 10).r = 0)
    THEN RemoveExcess[IF DivMod(m, 10).r >= 5 THEN MulAdd[DivMod(m, 10).q, 1, 1]
                      ELSE DivMod(m, 10).q, scale - 1]
    ELSE Dec(m, scale)
DecimalFromF64(f) ==
    IF f.e >= 0
    THEN LET m == MulPow[f.k, 5, f.e]
             cut == IF NumDigits(m) > DecimalDigits /\ f.e > NumDigits(m) - DecimalDigits
                    THEN NumDigits(m) - DecimalDigits ELSE 0
         IN RemoveExcess[DivPow10[m, cut], f.e - cut]
    ELSE Dec(MulPow[f.k, 2, 0 - f.e], 0)

\* ------------------------------------------------------ amount converters
\* one currency of each precision
Currencies == {"USD", "BHD", "JPY"}
is_zero_decimal_currency(currency) == currency = "JPY"
is_three_decimal_currency(currency) == currency = "BHD"

\* Decimal * Decimal::from(10^n) and Decimal / Decimal::from(10^n), both exact
DecimalMul(dec, n) == Dec(MulAdd[dec.m, Pow10[n], 0], dec.scale)
DecimalDiv(dec, n) == Dec(dec.m, dec.scale + n)

\* MinorUnit::to_major_unit_as_f64
to_major_unit_as_f64(amount, currency) ==
    LET amount_decimal == Dec(amount, 0)
    IN DecimalToF64(IF is_zero_decimal_currency(currency) THEN amount_decimal
                    ELSE IF is_three_decimal_currency(currency)
                    THEN DecimalDiv(amount_decimal, 3)
                    ELSE DecimalDiv(amount_decimal, 2))

\* MinorUnit::to_major_unit_as_string: the text is made from the f64
to_major_unit_as_string(amount, currency) ==
    LET amount_f64 == to_major_unit_as_f64(amount, currency)
    IN IF is_zero_decimal_currency(currency) THEN FloatToString(amount_f64)
       ELSE IF is_three_decimal_currency(currency) THEN FormatFixed(amount_f64, 3)
       ELSE FormatFixed(amount_f64, 2)

\* MinorUnit::to_minor_unit_as_string
to_minor_unit_as_string(amount) == I64ToString(amount)

\* the currency's factor applied to a parsed amount, then Decimal::to_i64
MajorToMinor(amount_decimal, currency) ==
    DecimalToI64(IF is_zero_decimal_currency(currency) THEN amount_decimal
                 ELSE IF is_three_decimal_currency(currency)
                 THEN DecimalMul(amount_decimal, 3)
                 ELSE DecimalMul(amount_decimal, 2))

\* StringMinorUnit::to_minor_unit_as_i64
StringMinorUnit_to_minor_unit_as_i64(text) ==
    IF DecimalFromStr(text).tag = "Err" THEN DecimalFromStr(text)
    ELSE DecimalToI64(DecimalFromStr(text).val)

\* FloatMajorUnit::to_minor_unit_as_i64
FloatMajorUnit_to_minor_unit_as_i64(f, currency) == MajorToMinor(DecimalFromF64(f), currency)

\* StringMajorUnit::to_minor_unit_as_i64
StringMajorUnit_to_minor_unit_as_i64(text, currency) ==
    IF DecimalFromStr(text).tag = "Err" THEN DecimalFromStr(text)
    ELSE MajorToMinor(DecimalFromStr(text).val, currency)

Converters ==
    {"MinorUnitForConnector", "StringMinorUnitForConnector", "StringMajorUnitForConnector",
     "StringMajorUnitForCore", "FloatMajorUnitForConnector"}
StringMajorConverters == {"StringMajorUnitForConnector", "StringMajorUnitForCore"}

\* AmountConvertor::convert of each implementation
convert(converter, amount, currency) ==
    CASE converter = "MinorUnitForConnector" -> Ok(amount)
      [] converter = "StringMinorUnitForConnector" -> Ok(to_minor_unit_as_string(amount))
      [] converter \in StringMajorConverters -> Ok(to_major_unit_as_string(amount, currency))
      [] converter = "FloatMajorUnitForConnector" -> Ok(to_major_unit_as_f64(amount, currency))

\* AmountConvertor::convert_back of each implementation
convert_back(converter, amount, currency) ==
    CASE converter = "MinorUnitForConnector" -> Ok(amount)
      [] converter = "StringMinorUnitForConnector" -> StringMinorUnit_to_minor_unit_as_i64(amount)
      [] converter \in StringMajorConverters ->
            StringMajorUnit_to_minor_unit_as_i64(amount, currency)
      [] converter = "FloatMajorUnitForConnector" ->
            FloatMajorUnit_to_minor_unit_as_i64(amount, currency)

\* i64::MAX / 1000
RoundTripBound == DivMod(I64Max, 1000).q

\* minor amounts: zero, one, the amounts of the tests and of scenario S6, 10^12,
\* amounts whose major value needs more than 53 bits, and the bound itself
Amounts ==
    {<<>>, <<1>>, <<1, 2345>>, <<9, 9999, 9999>>, <<1, 0, 0, 0>>,
     <<7036, 8744, 1776, 6407>>, <<8796, 930, 2220, 8001>>, RoundTripBound}

Convert ==
    /\ calc.fn = "AmountConvertor"
    /\ calc.stage = "amount"
    /\ calc' = [calc EXCEPT !.stage = "converted",
                            !.out = convert(calc.converter, calc.amount, calc.currency)]
    /\ UNCHANGED request_vars

ConvertBack ==
    /\ calc.fn = "AmountConvertor"
    /\ calc.stage = "converted"
    /\ calc.out.tag = "Ok"
    /\ calc' = [calc EXCEPT !.stage = "back",
                            !.back = convert_back(calc.converter, calc.out.val, calc.currency)]
    /\ UNCHANGED request_vars

InitAmount ==
    /\ Quiescent
    /\ \E converter \in Converters, currency \in Currencies, amount \in Amounts :
          calc = [fn |-> "AmountConvertor", converter |-> converter, currency |-> currency,
                  amount |-> amount, stage |-> "amount", out |-> Err(None), back |-> Err(None)]
NextAmount == Convert \/ ConvertBack
SpecAmount == InitAmount /\ [][NextAmount]_vars

\* the amount went through convert and convert_back
ConvertedBack == calc.fn = "AmountConvertor" /\ calc.stage = "back"

\* C26 as claimed: for every converter, every currency and every minor amount n
\* with 0 <= n <= i64::MAX/1000, convert_back(convert(n, cur), cur) is n.
C26_Claimed ==
    (ConvertedBack /\ ~Less(RoundTripBound, calc.amount)) => calc.back = Ok(calc.amount)

\* the precision of the currency: the number of fractional digits of its major unit
Precision(currency) ==
    IF is_zero_decimal_currency(currency) THEN 0
    ELSE IF is_three_decimal_currency(currency) THEN 3 ELSE 2

\* a major-unit string converter has converted the amount
ConvertedToMajorString ==
    /\ calc.fn = "AmountConvertor"
    /\ calc.stage = "converted"
    /\ calc.converter \in StringMajorConverters

\* the number of characters after the point, none when there is no point
FractionLength(s) == IF PointAt(s) = 0 THEN 0 ELSE Len(s) - PointAt(s)

\* the text without its point
WithoutPoint(s) == IF PointAt(s) = 0 THEN s ELSE SubSeq(s, 1, PointAt(s) - 1) \o SubSeq(s, PointAt(s) + 1, Len(s))

\* C27 as claimed: the text a major-unit string converter returns for the
\* minor amount n has no fractional part for a zero-decimal currency, exactly
\* two fractional digits for a two-decimal one and exactly three for a
\* three-decimal one, and its value is n / 10^precision.
C27_Claimed ==
    ConvertedToMajorString =>
        /\ calc.out.tag = "Ok"
        /\ (Precision(calc.currency) = 0) = (PointAt(calc.out.val) = 0)
        /\ FractionLength(calc.out.val) = Precision(calc.currency)
        /\ IsDigits(WithoutPoint(calc.out.val))
        /\ Value(WithoutPoint(calc.out.val)) = calc.amount

\* the part of C27 about the number of fractional digits, and the examples
C27_FractionDigits ==
    ConvertedToMajorString =>
        /\ calc.out.tag = "Ok"
        /\ (Precision(calc.currency) = 0) = (PointAt(calc.out.val) = 0)
        /\ FractionLength(calc.out.val) = Precision(calc.currency)
        /\ calc.amount = <<9, 9999, 9999>> =>
              calc.out.val = (CASE calc.currency = "USD" -> <<"9","9","9","9","9","9","9",".","9","9">>
                                [] calc.currency = "BHD" -> <<"9","9","9","9","9","9",".","9","9","9">>
                                [] OTHER -> <<"9","9","9","9","9","9","9","9","9">>)

\* ----------------------------------------------------------------- Percentage
\* the mantissa of an f32 has 24 bits
F32 == [lo |-> MulPow[<<1>>, 2, 23], hi |-> MulPow[<<1>>, 2, 24]]

Add[x \in Limbs, y \in Limbs, c \in 0..1] ==
    IF x = <<>> THEN MulAdd[y, 1, c]
    ELSE IF y = <<>> THEN MulAdd[x, 1, c]
    ELSE Strip[Append(Add[Front(x), Front(y), (x[Len(x)] + y[Len(y)] + c) \div Base],
                      (x[Len(x)] + y[Len(y)] + c) % Base)]

Mul[x \in Limbs, y \in Limbs] ==
    IF y = <<>> THEN <<>>
    ELSE Add[MulAdd[Mul[x, Front(y)], Base, 0], MulAdd[x, y[Len(y)], 0], 0]

\* x / 10^n with the remainder dropped; sticky tells whether it was not zero
DivPow10Sticky[x \in Limbs, n \in Nat, sticky \in BOOLEAN] ==
    IF n = 0 THEN [q |-> x, sticky |-> sticky]
    ELSE IF n >= 4
    THEN DivPow10Sticky[DivMod(x, Base).q, n - 4, sticky \/ DivMod(x, Base).r # 0]
    ELSE DivPow10Sticky[DivMod(x, 10).q, n - 1, sticky \/ DivMod(x, 10).r # 0]

\* the number of bits x has beyond those of the mantissa of the format
BitExcess[x \in Limbs, n \in Nat, ty \in FloatFormats] ==
    IF ~Less(DivMod(x, 65536).q, ty.hi) THEN BitExcess[DivMod(x, 65536).q, n + 16, ty]
    ELSE IF ~Less(DivMod(x, 16).q, ty.hi) THEN BitExcess[DivMod(x, 16).q, n + 4, ty]
    ELSE IF ~Less(x, ty.hi) THEN BitExcess[DivMod(x, 2).q, n + 1, ty]
    ELSE n

\* the float of the format nearest to (x + a fraction that is not zero iff
\* sticky) / 2^e, ties to even
RoundBits(x, sticky, e, ty) ==
    IF BitExcess[x, 0, ty] = 0 THEN [k |-> x, e |-> e]
    ELSE [k |-> ShiftRight[x, BitExcess[x, 0, ty], 0, sticky], e |-> e - BitExcess[x, 0, ty]]

\* m * 2^e / 10^n has more bits than the mantissa
ScaleBig[m \in Limbs, n \in Nat, e \in Nat, ty \in FloatFormats] ==
    IF Less(DivPow10[m, n], ty.hi) THEN ScaleBig[MulAdd[m, 65536, 0], n, e + 16, ty]
    ELSE [m |-> m, e |-> e]

\* the float of the format nearest to m / 10^n, for m > 0
DecToFloat(m, n, ty) ==
    LET scaled == ScaleBig[m, n, 0, ty]
        div == DivPow10Sticky[scaled.m, n, FALSE]
    IN RoundBits(div.q, div.sticky, scaled.e, ty)

\* the least integer that is not below x / 2^n
CeilShift[x \in Limbs, n \in Nat, sticky \in BOOLEAN] ==
    IF n = 0 THEN IF sticky THEN MulAdd[x, 1, 1] ELSE x
    ELSE IF n >= 16 THEN CeilShift[DivMod(x, 65536).q, n - 16, sticky \/ DivMod(x, 65536).r # 0]
    ELSE CeilShift[DivMod(x, 2).q, n - 1, sticky \/ DivMod(x, 2).r # 0]

\* f64::ceil() as i64 of a float that is not negative
CeilToI64(f) == IF f.e <= 0 THEN MulPow[f.k, 2, 0 - f.e] ELSE CeilShift[f.k, f.e, FALSE]

LowerCase(c) ==
    CASE c = "E" -> "e" [] c = "I" -> "i" [] c = "N" -> "n" [] c = "F" -> "f"
      [] c = "A" -> "a" [] c = "T" -> "t" [] c = "Y" -> "y" [] OTHER -> c
Lower(s) == [i \in 1..Len(s) |-> LowerCase(s[i])]

FirstOf(s, c) == IF \E i \in 1..Len(s) : s[i] = c THEN CHOOSE i \in 1..Len(s) : s[i] = c /\ \A j \in 1..(i - 1) : s[j] # c ELSE 0
LastOf(s, c) == IF \E i \in 1..Len(s) : s[i] = c THEN CHOOSE i \in 1..Len(s) : s[i] = c /\ \A j \in (i + 1)..Len(s) : s[j] # c ELSE 0

SignOf(s) == IF s # <<>> /\ s[1] \in {"+", "-"} THEN s[1] ELSE ""
Unsigned(s) == IF SignOf(s) = "" THEN s ELSE Tail(s)

\* the exponent of the text as an integer, cut off at 10^4
SmallValue(s) == IF Value(s) = <<>> THEN 0 ELSE IF Len(Value(s)) = 1 THEN Value(s)[1] ELSE Base

\* the grammar of str::parse::<f32>: an optional sign, then inf, infinity, nan
\* (in any case) or digits with at most one point and at least one digit,
\* then an optional exponent e, sign, digits. The number read is
\* (-1)^neg * m * 10^exp10.
ParseFloat(value) ==
    LET body == Lower(Unsigned(value))
        neg == SignOf(value) = "-"
        epos == FirstOf(body, "e")
        mant == IF epos = 0 THEN body ELSE SubSeq(body, 1, epos - 1)
        exptext == IF epos = 0 THEN <<>> ELSE SubSeq(body, epos + 1, Len(body))
        dot == FirstOf(mant, ".")
        whole == IF dot = 0 THEN mant ELSE SubSeq(mant, 1, dot - 1)
        frac == IF dot = 0 THEN <<>> ELSE SubSeq(mant, dot + 1, Len(mant))
        exp == IF SignOf(exptext) = "-" THEN 0 - SmallValue(Unsigned(exptext))
               ELSE SmallValue(Unsigned(exptext))
    IN IF body \in {<<"i", "n", "f">>, <<"i", "n", "f", "i", "n", "i", "t", "y">>}
       THEN Ok([kind |-> "inf", neg |-> neg, m |-> <<>>, exp10 |-> 0])
       ELSE IF body = <<"n", "a", "n">>
       THEN Ok([kind |-> "nan", neg |-> neg, m |-> <<>>, exp10 |-> 0])
       ELSE IF /\ IsDigits(whole) /\ IsDigits(frac) /\ whole \o frac # <<>>
               /\ epos # 0 => (Unsigned(exptext) # <<>> /\ IsDigits(Unsigned(exptext)))
       THEN Ok([kind |-> "finite", neg |-> neg, m |-> Value(whole \o frac),
                exp10 |-> exp - Len(frac)])
       ELSE Err("ParseFloatError")

\* the largest exponent of ten of an f32 that is finite
F32MaxExp10 == 38

\* the f32 nearest to the number read: [kind, neg, k, e] is (-1)^neg * k / 2^e
\* (numbers below the range of the normal f32 keep their 24 bits here)
ToF32(num) ==
    IF num.kind # "finite" THEN [kind |-> num.kind, neg |-> num.neg, k |-> <<>>, e |-> 0]
    ELSE IF num.m = <<>> THEN [kind |-> "finite", neg |-> num.neg, k |-> <<>>, e |-> 0]
    ELSE IF num.exp10 + NumDigits(num.m) > F32MaxExp10 + 1
    THEN [kind |-> "inf", neg |-> num.neg, k |-> <<>>, e |-> 0]
    ELSE LET f == IF num.exp10 >= 0 THEN DecToFloat(MulPow[num.m, 10, num.exp10], 0, F32)
                  ELSE DecToFloat(num.m, 0 - num.exp10, F32)
         IN [kind |-> "finite", neg |-> num.neg, k |-> f.k, e |-> f.e]

is_valid_float_string(value) ==
    IF ParseFloat(value).tag = "Err" THEN Err("InvalidPercentageValue")
    ELSE Ok(ToF32(ParseFloat(value).val))

\* (0.0..=100.0).contains(&value)
is_valid_range(value) ==
    /\ value.kind = "finite"
    /\ ~value.neg \/ value.k = <<>>
    /\ IF value.e >= 0 THEN ~Less(MulPow[<<100>>, 2, value.e], value.k)
       ELSE ~Less(<<100>>, MulPow[value.k, 2, 0 - value.e])

trim_end_matches_0(s) ==
    IF \A i \in 1..Len(s) : s[i] = "0" THEN <<>>
    ELSE SubSeq(s, 1, CHOOSE i \in 1..Len(s) : s[i] # "0" /\ \A j \in (i + 1)..Len(s) : s[j] = "0")

is_valid_precision_length(value, PRECISION) ==
    IF LastOf(value, ".") # 0
    THEN Len(trim_end_matches_0(SubSeq(value, LastOf(value, ".") + 1, Len(value)))) <= PRECISION
    ELSE TRUE

is_valid_string_value(value, PRECISION) ==
    IF is_valid_float_string(value).tag = "Err" THEN is_valid_float_string(value)
    ELSE Ok(is_valid_range(is_valid_float_string(value).val)
            /\ is_valid_precision_length(value, PRECISION))

Percentage_from_string(value, PRECISION) ==
    IF is_valid_string_value(value, PRECISION).tag = "Err"
    THEN is_valid_string_value(value, PRECISION)
    ELSE IF is_valid_string_value(value, PRECISION).val
    THEN Ok(ToF32(ParseFloat(value).val))
    ELSE Err("InvalidPercentageValue")

\* i64::MAX / 10000
max_amount == DivMod(I64Max, 10000).q

\* percentage_f64 / 100.0, of a percentage that is finite and not negative
PercentageFraction(percentage) ==
    IF percentage.k = <<>> THEN FloatZero
    ELSE [k |-> ToFloat(percentage.k, 100, F64).k,
          e |-> ToFloat(percentage.k, 100, F64).e + percentage.e]

\* amount as f64 * fraction, for an amount below 2^53
FloatProduct(amount, fraction) ==
    IF amount = <<>> \/ fraction.k = <<>> THEN FloatZero
    ELSE RoundBits(Mul[amount, fraction.k], FALSE, fraction.e, F64)

apply_and_ceil_result(percentage, amount) ==
    IF Less(max_amount, amount) THEN Err("UnableToApplyPercentage")
    ELSE Ok(CeilToI64(FloatProduct(amount, PercentageFraction(percentage))))

\* the texts and the precisions from_string is called with
PercentageTexts ==
    {<<"1", "0", "1">>, <<"-", "1">>, <<"1", ".", "2", "3", "4">>, <<"1", ".", "2", "3">>,
     <<"0">>, <<"1", "0", "0">>, <<"1", "0", "0", ".", "0", "1">>, <<"7">>, <<"5", "0">>,
     <<"1", ".", "2", "3", "0", "0">>, <<"3", "3", ".", "3", "3">>, <<"9", "9", ".", "9", "9">>,
     <<"1", ".">>, <<".", "5">>, <<"+", "2", ".", "5">>, <<"-", "0">>, <<"a", "b", "c">>, <<>>,
     <<"1", ".", "2", ".", "3">>, <<"1", "e", "-", "3">>, <<"1", ".", "5", "e", "1">>,
     <<"1", "E", "2">>, <<"1", "e", "3">>, <<"n", "a", "n">>, <<"i", "n", "f">>, <<".">>,
     <<"1", "e">>, <<"0", ".", "0", "0", "1">>}
Precisions == {0, 2, 3}
PercentageAmounts ==
    {<<>>, <<1>>, <<100>>, <<300>>, <<1, 0>>, <<9, 9999, 9999>>, max_amount,
     MulAdd[max_amount, 1, 1], I64Max}

FromString ==
    /\ calc.fn = "Percentage"
    /\ calc.stage = "text"
    /\ calc' = [calc EXCEPT !.stage = "parsed",
                            !.out = Percentage_from_string(calc.text, calc.PRECISION)]
    /\ UNCHANGED request_vars

ApplyAndCeil ==
    /\ calc.fn = "Percentage"
    /\ calc.stage = "parsed"
    /\ calc.out.tag = "Ok"
    /\ calc' = [calc EXCEPT !.stage = "applied",
                            !.result = apply_and_ceil_result(calc.out.val, calc.amount)]
    /\ UNCHANGED request_vars

InitPercentage ==
    /\ Quiescent
    /\ \E text \in PercentageTexts, PRECISION \in Precisions, amount \in PercentageAmounts :
          calc = [fn |-> "Percentage", text |-> text, PRECISION |-> PRECISION,
                  amount |-> amount, stage |-> "text", out |-> Err(None), result |-> Err(None)]
NextPercentage == FromString \/ ApplyAndCeil
SpecPercentage == InitPercentage /\ [][NextPercentage]_vars

\* from_string has returned
Parsed == calc.fn = "Percentage" /\ calc.stage \in {"parsed", "applied"}

\* the number the text denotes lies in [0, 100]
NumberInRange(num) ==
    /\ num.kind = "finite"
    /\ ~num.neg \/ num.m = <<>>
    /\ IF num.exp10 >= 0 THEN ~Less(<<100>>, MulPow[num.m, 10, num.exp10])
       ELSE ~Less(MulPow[<<100>>, 10, 0 - num.exp10], num.m)

\* the number of fractional digits of the number the text denotes
TrailingZeros(m) ==
    Len(ToDigits(m)) - (CHOOSE i \in 1..Len(ToDigits(m)) :
                           ToDigits(m)[i] # 0 /\ \A j \in (i + 1)..Len(ToDigits(m)) : ToDigits(m)[j] = 0)
FractionalDigits(num) ==
    IF num.m = <<>> \/ num.exp10 >= 0 \/ 0 - num.exp10 <= TrailingZeros(num.m) THEN 0
    ELSE 0 - num.exp10 - TrailingZeros(num.m)

\* the text parses as a number in [0, 100] with at most PRECISION fractional digits
ValidPercentage(text, PRECISION) ==
    /\ ParseFloat(text).tag = "Ok"
    /\ NumberInRange(ParseFloat(text).val)
    /\ FractionalDigits(ParseFloat(text).val) <= PRECISION

\* C28 as claimed: from_string accepts a text iff it parses as a number in
\* [0, 100] with at most P fractional digits, trailing zeros not counted; what
\* it refuses it refuses with InvalidPercentageValue, and "1.23" yields 1.23.
C28_Claimed ==
    Parsed =>
        /\ (calc.out.tag = "Ok") = ValidPercentage(calc.text, calc.PRECISION)
        /\ calc.out.tag = "Err" => calc.out = Err("InvalidPercentageValue")
        /\ (calc.text = <<"1", ".", "2", "3">> /\ calc.PRECISION = 2) =>
              (calc.out.tag = "Ok" /\ FormatFixed(calc.out.val, 2) = calc.text)

\* the part of C28 that holds: the texts without an exponent, and the examples
C28_PlainTexts ==
    (Parsed /\ FirstOf(Lower(calc.text), "e") = 0) =>
        /\ (calc.out.tag = "Ok") = ValidPercentage(calc.text, calc.PRECISION)
        /\ calc.out.tag = "Err" => calc.out = Err("InvalidPercentageValue")
        /\ (calc.text = <<"1", ".", "2", "3">> /\ calc.PRECISION = 2) =>
              (calc.out.tag = "Ok" /\ FormatFixed(calc.out.val, 2) = calc.text)
        /\ (calc.PRECISION = 2 /\ calc.text \in {<<"1", "0", "1">>, <<"-", "1">>, <<"1", ".", "2", "3", "4">>})
              => calc.out = Err("InvalidPercentageValue")

\* the least integer that is not below x / d
CeilDiv(x, d) == IF DivMod(x, d).r = 0 THEN DivMod(x, d).q ELSE MulAdd[DivMod(x, d).q, 1, 1]

\* apply_and_ceil_result has returned
Applied == calc.fn = "Percentage" /\ calc.stage = "applied"

\* the least integer not below amount * percentage / 100, the percentage being
\* the f32 the Percentage holds
ExactCeil(amount, percentage) ==
    CeilDiv(CeilShift[Mul[amount, percentage.k], percentage.e, FALSE], 100)

\* C29 as claimed: apply_and_ceil_result returns UnableToApplyPercentage for
\* every amount above i64::MAX/10000, and for every other amount the least
\* integer not below amount * percentage / 100, which fits an i64.
C29_Claimed ==
    Applied =>
        IF Less(max_amount, calc.amount) THEN calc.result = Err("UnableToApplyPercentage")
        ELSE /\ calc.result.tag = "Ok"
             /\ ~Less(I64Max, calc.result.val)
             /\ calc.result.val = ExactCeil(calc.amount, calc.out.val)

\* C30: the record looked up before the loop serves the first iteration only.
\* Once a standard retry has returned, no such record is left, and the step
\* the loop takes is the one the GSM record of the RouterData that retry
\* returned asks for: Requeue ends the call with NotImplemented, DoDefault ends
\* it with Ok without counting an exhaustion, and Retry starts another retry,
\* counts an exhaustion or fails on the connector list.
C30_FreshGsmLookup ==
    [][\A t \in Tasks :
          (LoopStep(t) /\ hist[t].std_retries >= 1) =>
              /\ ~initial_gsm[t].present
              /\ RequeueCase(get_gsm(router_data[t])) =>
                    (pc'[t] = "done" /\ outcome'[t] = "NotImplemented")
              /\ DoDefaultCase(get_gsm(router_data[t])) =>
                    /\ pc'[t] = "done" /\ outcome'[t] = "Ok"
                    /\ metrics'[t].exhausted = metrics[t].exhausted
              /\ RetryCase(get_gsm(router_data[t])) =>
                    \/ pc'[t] = "mt_update" /\ hist'[t].std_retries = hist[t].std_retries + 1
                    \/ pc'[t] = "done" /\ outcome'[t] = "Ok"
                       /\ metrics'[t].exhausted = metrics[t].exhausted + 1
                    \/ pc'[t] = "done" /\ outcome'[t] = "InternalServerError"]_vars

\* a call that started on a Retry record made one standard retry and then
\* stopped on the DoDefault of the RouterData the retry returned, with budget
\* and connectors left for the retry the first record would have asked for
C30_Witness ==
    \E t \in Tasks :
        /\ pc[t] = "done" /\ outcome[t] = "Ok"
        /\ hist[t].std_retries = 1 /\ hist[t].step_ups = 0
        /\ RetryCase(get_gsm(hist[t].entry))
        /\ DoDefaultCase(get_gsm(router_data[t]))
        /\ router_data[t] # hist[t].entry
        /\ connectors[t] # <<>>
        /\ retries[t].some /\ retries[t].val > 0
        /\ metrics[t].exhausted = 0

\* the record is there and its decision is one of the three decision names
ParsedCase(gsm) == gsm.present /\ gsm.decision \in {"retry", "requeue", "do_default"}

\* C31: in every iteration of the loop, no GSM record and a record whose
\* decision is no decision name both act as DoDefault (the call ends with Ok,
\* no retry, no exhaustion counted), a record with a decision name acts as
\* that decision, and AUTO_RETRY_GSM_MATCH_COUNT goes up by one exactly when
\* the record is there and its decision is a decision name.
C31_GsmDecisionMapping ==
    [][\A t \in Tasks :
          LoopStep(t) =>
              /\ metrics'[t].gsm_match =
                     metrics[t].gsm_match + (IF ParsedCase(LoopGsm(t)) THEN 1 ELSE 0)
              /\ (~ParsedCase(LoopGsm(t)) \/ LoopGsm(t).decision = "do_default") =>
                    /\ pc'[t] = "done" /\ outcome'[t] = "Ok"
                    /\ metrics'[t].exhausted = metrics[t].exhausted
                    /\ hist'[t].std_retries = hist[t].std_retries
              /\ (ParsedCase(LoopGsm(t)) /\ LoopGsm(t).decision = "requeue") =>
                    (pc'[t] = "done" /\ outcome'[t] = "NotImplemented")
              /\ (ParsedCase(LoopGsm(t)) /\ LoopGsm(t).decision = "retry") =>
                    \/ pc'[t] = "mt_update" /\ hist'[t].std_retries = hist[t].std_retries + 1
                    \/ pc'[t] = "done" /\ outcome'[t] = "Ok"
                       /\ metrics'[t].exhausted = metrics[t].exhausted + 1
                    \/ pc'[t] = "done" /\ outcome'[t] = "InternalServerError"]_vars

\* a call ended as DoDefault on a record whose decision does not parse, after a
\* retry that was decided on a record that counted as a match
C31_Witness ==
    \E t \in Tasks :
        /\ pc[t] = "done" /\ outcome[t] = "Ok"
        /\ hist[t].std_retries = 1 /\ hist[t].step_ups = 0
        /\ get_gsm(router_data[t]).present
        /\ ~ParsedCase(get_gsm(router_data[t]))
        /\ metrics[t].gsm_match = 1
        /\ metrics[t].exhausted = 0

\* C32: a call that returned Ok returns the RouterData of its last connector
\* invocation, and the RouterData it was given when it made no invocation.
C32_ReturnedRouterData ==
    \A t \in Tasks :
        (pc[t] = "done" /\ outcome[t] = "Ok") =>
            router_data[t] = IF hist[t].invoked = <<>> THEN hist[t].entry ELSE hist[t].produced

\* a call returned Ok after two invocations whose results differ from each
\* other and from the RouterData of the entry
C32_Witness ==
    \E t \in Tasks :
        /\ pc[t] = "done" /\ outcome[t] = "Ok"
        /\ Len(hist[t].invoked) = 2
        /\ router_data[t] # hist[t].entry
        /\ router_data[t].connector = hist[t].invoked[2][1]
        /\ router_data[t].connector # hist[t].invoked[1][1]

\* a call returned Ok without an invocation, by DoDefault or by exhaustion
C32_WitnessNoRetry ==
    \E t \in Tasks :
        /\ pc[t] = "done" /\ outcome[t] = "Ok"
        /\ hist[t].invoked = <<>>
        /\ metrics[t].exhausted = 1

\* ------------------------------------------------- make_new_payment_attempt
\* the columns make_new_payment_attempt resets, as one record
TransientDefaults ==
    [amount_capturable |-> 0, error_code |-> None, error_message |-> None,
     error_reason |-> None, unified_code |-> None, unified_message |-> None,
     authentication_data |-> None, encoded_data |-> None, connector_metadata |-> None,
     multiple_capture_count |-> None, connector_transaction_id |-> None]

\* the same columns of an attempt that failed at its connector
TransientAfterFailure ==
    [amount_capturable |-> 1000, error_code |-> "E_RETRY", error_message |-> "declined",
     error_reason |-> "reason", unified_code |-> "UE_1000", unified_message |-> "Declined",
     authentication_data |-> "auth_data", encoded_data |-> "encoded",
     connector_metadata |-> "meta", multiple_capture_count |-> "2",
     connector_transaction_id |-> "txn_id"]

\* the prior attempts make_new_payment_attempt is called with
OldAttempts ==
    {[exists |-> TRUE, attempt_id |-> get_attempt_id(count), connector |-> connector,
      payment_id |-> PaymentId, merchant_id |-> merchant, status |-> status,
      authentication_type |-> auth, amount |-> 1000, currency |-> currency,
      payment_method |-> "card", capture_method |-> capture,
      profile_id |-> "pro_1", organization_id |-> "org_1"] @@ transient :
        count \in 1..2, connector \in {"A", "B"}, merchant \in {"merchant_1", "merchant_2"},
        status \in {"Pending", "Failure"}, auth \in AuthTypes \cup {None},
        currency \in {"USD", "JPY"}, capture \in {"automatic", "manual"},
        transient \in {TransientDefaults, TransientAfterFailure}}

MakeNewPaymentAttempt ==
    /\ calc.fn = "make_new_payment_attempt"
    /\ calc.stage = "arguments"
    /\ calc' = [calc EXCEPT !.stage = "built",
                            !.out = make_new_payment_attempt(calc.connector,
                                        calc.old_payment_attempt, calc.new_attempt_count,
                                        calc.is_step_up)]
    /\ UNCHANGED request_vars

InitNewAttempt ==
    /\ Quiescent
    /\ \E old \in OldAttempts, connector \in {"B", "C"}, is_step_up \in BOOLEAN :
          calc = [fn |-> "make_new_payment_attempt", connector |-> connector,
                  old_payment_attempt |-> old,
                  new_attempt_count |-> old.attempt_id[2] + 1,
                  is_step_up |-> is_step_up, stage |-> "arguments", out |-> NoRow]
SpecNewAttempt == InitNewAttempt /\ [][MakeNewPaymentAttempt]_vars

\* make_new_payment_attempt has returned
Built == calc.fn = "make_new_payment_attempt" /\ calc.stage = "built"

\* C33: the new attempt has the new connector, copies payment_id, merchant_id,
\* amount, currency, payment method, capture method, profile_id and
\* organization_id from the prior attempt, and has error_code, error_message,
\* error_reason, unified_code, unified_message, authentication_data,
\* encoded_data, connector_metadata and multiple_capture_count null and
\* amount_capturable zero, whatever the prior attempt held.
C33_NewAttemptFields ==
    Built =>
        /\ calc.out.connector = calc.connector
        /\ \A f \in {"payment_id", "merchant_id", "amount", "currency", "payment_method",
                     "capture_method", "profile_id", "organization_id"} :
               calc.out[f] = calc.old_payment_attempt[f]
        /\ \A f \in {"error_code", "error_message", "error_reason", "unified_code",
                     "unified_message", "authentication_data", "encoded_data",
                     "connector_metadata", "multiple_capture_count"} :
               calc.out[f] = None
        /\ calc.out.amount_capturable = 0

\* the new attempt of a prior attempt that carried an error and connector data
C33_Witness ==
    /\ Built
    /\ calc.old_payment_attempt.error_code = "E_RETRY"
    /\ calc.old_payment_attempt.connector_metadata = "meta"
    /\ calc.old_payment_attempt.amount_capturable = 1000
    /\ calc.old_payment_attempt.merchant_id = "merchant_2"
    /\ calc.old_payment_attempt.connector # calc.connector
    /\ calc.out.exists

\* C34: a call adds one to AUTO_RETRY_ELIGIBLE_REQUEST_COUNT when it starts and
\* nothing after that, and it adds one to AUTO_RETRY_PAYMENT_COUNT for every
\* do_retry it starts, step-up or standard, so that after the call the counter
\* stands at the number of retries the call started.
C34_CounterAccounting ==
    \A t \in Tasks :
        /\ metrics[t].eligible = IF pc[t] \in {"idle", "cfg_gate", "gate", "start"} THEN 0 ELSE 1
        /\ metrics[t].payment = hist[t].step_ups + hist[t].std_retries

\* a call has ended after a step-up retry; another after two standard retries
C34_Witness ==
    \E t \in Tasks :
        /\ pc[t] = "done"
        /\ metrics[t].eligible = 1
        /\ metrics[t].payment = 2
        /\ hist[t].std_retries = 2
C34_WitnessStepUp ==
    \E t \in Tasks :
        /\ pc[t] = "done"
        /\ metrics[t].payment = 1
        /\ hist[t].step_ups = 1

\* C35: PaymentIntent::update leaves every row alone whose payment_id or
\* merchant_id differs from that of the intent it is called on, and
\* find_by_payment_id_merchant_id returns no row but the one with both keys.
C35_IntentKeyIsolation ==
    UpdateReturned =>
        /\ \A k \in IntentKeys :
               k # <<calc.self.payment_id, calc.self.merchant_id>> => calc.table[k] = calc.table0[k]
        /\ (calc.looked /\ calc.found.tag = "Ok") =>
               /\ calc.found.val.payment_id = calc.find_key[1]
               /\ calc.found.val.merchant_id = calc.find_key[2]
               /\ calc.found.val = calc.table[calc.find_key]

\* the update changed the row of its intent while a row of the same payment_id
\* under another merchant and a row of another payment_id were there, and the
\* find that followed returned one of those rows
C35_Witness ==
    /\ UpdateReturned
    /\ calc.out.tag = "Ok"
    /\ calc.table # calc.table0
    /\ \A k \in IntentKeys : calc.table0[k].exists
    /\ calc.self.payment_id = "pay_1"
    /\ calc.looked
    /\ calc.find_key = <<"pay_1", "merchant_2">>
    /\ calc.self.merchant_id = MerchantId
    /\ calc.found = Ok(calc.table0[calc.find_key])

\* C36 as claimed: whatever response the prior RouterData carries, every
\* connector invocation of a retry comes after the terminal update, the insert
\* and the intent update of its do_retry, and runs under an attempt id that
\* neither the first invocation of the request nor another retry has used.
C36_Claimed ==
    \A t \in Running :
        \A i \in 1..Len(hist[t].invoked) :
            /\ hist[t].invoked[i][3] /\ hist[t].invoked[i][4] /\ hist[t].invoked[i][5]
            /\ hist[t].invoked[i][2] # hist[t].entry.attempt_id
            /\ \A j \in 1..Len(hist[t].invoked) :
                   j # i => hist[t].invoked[j][2] # hist[t].invoked[i][2]

\* C37 as claimed: for every integer v stored under max_auto_retries, negative
\* values included, one call performs at most max(0, v) standard retries.
C37_Claimed ==
    \A t \in Running :
        cfg_max_retries.tag = "int" =>
            hist[t].std_retries <=
                (IF cfg_max_retries.int > 0 THEN cfg_max_retries.int ELSE 0)

\* C38 as claimed: whenever do_gsm_actions has returned, Ok or Err, a failure of
\* one of the three persistence steps included, the number of attempts
\* persisted equals the persisted attempt_count of the intent, the persisted
\* active_attempt_id names the attempt with the highest count, and the
\* in-memory payment_attempt is the attempt the in-memory payment_intent names.
C38_Claimed ==
    \A t \in Running :
        pc[t] = "done" =>
            /\ Cardinality({id \in DOMAIN attempts : attempts[id].exists})
                   = intent.attempt_count
            /\ attempts[intent.active_attempt_id].exists
            /\ \A id \in DOMAIN attempts :
                   attempts[id].exists => id[2] <= intent.active_attempt_id[2]
            /\ payment_data[t].payment_attempt.attempt_id
                   = payment_data[t].payment_intent.active_attempt_id

\* C39: for every shortlist, every configured budget and every sequence of
\* connector responses, a do_gsm_actions call that has started returns, Ok or
\* Err: it reaches the state after its return.
C39_Terminates == \A t \in Tasks : (pc[t] = "start") ~> (pc[t] = "done")

\* C39 witness: a call returned after standard retries that only the shortlist
\* bounded: the configured budget is negative and never reaches 0
C39_Witness ==
    \E t \in Running :
        /\ pc[t] = "done"
        /\ cfg_max_retries.tag = "int" /\ cfg_max_retries.int < 0
        /\ hist[t].std_retries = Len(hist[t].entry_connectors)
        /\ hist[t].std_retries >= 1
        /\ connectors[t] = <<>>

\* C40: the terminal update of the prior attempt leaves the in-memory snapshot
\* as it was, and every attempt a retry inserts starts with the status of that
\* snapshot, which is the status of the attempt that was active at entry: the
\* Failure an ErrorUpdate wrote to the prior row is not carried over.
C40_NewAttemptStatus ==
    [][\A t \in Tasks :
          /\ (pc[t] = "mt_update" /\ pc'[t] = "mt_insert") =>
                 payment_data'[t].payment_attempt = payment_data[t].payment_attempt
          /\ (pc[t] = "mt_insert" /\ pc'[t] = "mt_intent" /\ hist'[t].inserted) =>
                 /\ attempts'[NewAttemptId(t)].status = payment_data[t].payment_attempt.status
                 /\ attempts'[NewAttemptId(t)].status
                        = InitialAttempt(hist[t].entry_auth).status
                 /\ payment_data'[t].payment_attempt.status
                        = payment_data[t].payment_attempt.status]_vars

\* C40 witness: the second retry of a call inserted its attempt as Pending
\* after ErrorUpdates had left both earlier rows at Failure
C40_Witness ==
    \E t \in Running :
        /\ pc[t] = "mt_intent" /\ hist[t].inserted
        /\ cur[t].new_attempt_count = 3
        /\ hist[t].applied.some /\ hist[t].applied.id = get_attempt_id(2)
        /\ attempts[get_attempt_id(1)].status = "Failure"
        /\ attempts[get_attempt_id(2)].status = "Failure"
        /\ attempts[get_attempt_id(3)].status = "Pending"
        /\ router_data[t].kind = "Err"

====
